---- MODULE Spec2Model ----
(***************************************************************************)
(* A model of the Rosetta DSL viewer core: the regex parser                *)
(* (RosettaParser), the workspace symbol index (SymbolIndexer), the        *)
(* validator (DiagnosticProvider) and the type graph builder               *)
(* (TypeGraphBuilder).                                                     *)
(*                                                                         *)
(* Source text is modelled as a sequence of lines.  Every line is one of   *)
(* the shapes the parser's regular expressions distinguish; `ind` is 1     *)
(* when the line starts with whitespace and 0 when it starts in column 0.  *)
(*   namespace : namespace n1 : <"d">       (desc "none": namespace n1)    *)
(*   type      : type A extends B : <"d"> { (desc "none": type A {)        *)
(*   enum      : enum E : <"d"> {                                          *)
(*   func      : func F:                                                   *)
(*   field     :     name type (card)                                      *)
(*   value     :     NAME                                                  *)
(*   close     : }                                                         *)
(*   junk      : this is not valid rosetta syntax @#$%                     *)
(* desc is "none" (no `: <"...">` part), "empty" (`: <"">`) or "text"      *)
(* (`: <"d">`).  Names are \w+ words; a namespace is the sequence of its   *)
(* dot-separated components, and so is every key of the symbol tables      *)
(* (<<"A">> is the bare name A, <<"n1","A">> the qualified name n1.A).     *)
(***************************************************************************)
EXTENDS Integers, Sequences, FiniteSets, TLC

VARIABLES
    disk,           \* fs: path -> text, Directory, Unreadable or Absent
    workspaceFolders, \* vscode.workspace.workspaceFolders
    events,         \* file-watcher events not yet delivered (FIFO)
    files,          \* SymbolIndexer.files      : path -> RosettaFile
    typeIndex,      \* SymbolIndexer.typeIndex  : name -> SymbolInfo
    enumIndex,      \* SymbolIndexer.enumIndex  : name -> SymbolInfo
    content,        \* the text handed to RosettaParser.parse
    fault,          \* where an exception is raised during that parse
    result,         \* the ParseResult returned, or None
    cardinalityStr, \* the string handed to parseCardinality
    cardinality,    \* the Cardinality returned, or None
    document,       \* the document handed to validateDocument
    diagnostics,    \* the diagnostics set for that document
    graph,          \* the buildGraphFromType call in progress or finished
    textDocument,   \* the document open in the editor, or None
    documentEvents, \* document events of the workspace not yet delivered (FIFO)
    search,         \* the last SearchProvider.search call and its results, or None
    running,        \* the indexing calls begun and not yet returned
    observed        \* the tables as a provider query last found them, or None

vars == <<disk, workspaceFolders, events, files, typeIndex, enumIndex, content, fault, result,
          cardinalityStr, cardinality, document, diagnostics, graph,
          textDocument, documentEvents, search, running, observed>>

indexVars == <<disk, workspaceFolders, events, files, typeIndex, enumIndex>>
parseVars == <<content, fault, result>>
cardVars  == <<cardinalityStr, cardinality>>
validateVars == <<document, diagnostics>>
editorVars == <<textDocument, documentEvents>>
loopVars == <<running, observed>>

-----------------------------------------------------------------------------
(* Values *)

\* JavaScript's undefined (an absent optional member, a failed lookup)
Undefined == [undefined |-> TRUE]
\* no call made yet
None == [none |-> TRUE]
\* a path with no file on disk
Absent == [absent |-> TRUE]

EmptyMap == [k \in {} |-> Undefined]

\* Map.set(key, value)
MapSet(m, key, value) ==
    [k \in (DOMAIN m) \cup {key} |-> IF k = key THEN value ELSE m[k]]

\* Map.get(key)
MapGet(m, key) == IF key \in DOMAIN m THEN m[key] ELSE Undefined

Last(s) == s[Len(s)]

RECURSIVE SeqFilter(_, _)
SeqFilter(s, keep) ==
    IF s = <<>> THEN <<>>
    ELSE (IF Head(s) \in keep THEN <<Head(s)>> ELSE <<>>) \o SeqFilter(Tail(s), keep)

Range(s) == {s[i] : i \in DOMAIN s}

\* all sequences over S of length <= n
SeqsUpTo(S, n) == UNION {[1..k -> S] : k \in 0..n}

\* the characters of the names and queries that have more than one or none;
\* any other name is a single character
Spell ==
    "" :> <<>> @@ "ab" :> <<"a", "b">> @@ "Ab" :> <<"A", "b">> @@ "AB" :> <<"A", "B">>
    @@ "ba" :> <<"b", "a">> @@ "Ba" :> <<"B", "a">>
    @@ "name" :> <<"n", "a", "m", "e">>
    @@ "department" :> <<"d", "e", "p", "a", "r", "t", "m", "e", "n", "t">>
    @@ "Employee" :> <<"E", "m", "p", "l", "o", "y", "e", "e">>
    @@ "Person" :> <<"P", "e", "r", "s", "o", "n">>
    @@ "Department" :> <<"D", "e", "p", "a", "r", "t", "m", "e", "n", "t">>
    @@ "string" :> <<"s", "t", "r", "i", "n", "g">>
    @@ "int" :> <<"i", "n", "t">>

\* the characters of a name
Chars(name) == IF name \in DOMAIN Spell THEN Spell[name] ELSE <<name>>

\* String.prototype.startsWith, as a regex without \b after ${name} matches
StartsWith(name, prefix) ==
    /\ Len(Chars(prefix)) <= Len(Chars(name))
    /\ SubSeq(Chars(name), 1, Len(Chars(prefix))) = Chars(prefix)

UpperLetters ==
    <<"A", "B", "C", "D", "E", "F", "G", "H", "I", "J", "K", "L", "M",
      "N", "O", "P", "Q", "R", "S", "T", "U", "V", "W", "X", "Y", "Z">>

LowerLetters ==
    <<"a", "b", "c", "d", "e", "f", "g", "h", "i", "j", "k", "l", "m",
      "n", "o", "p", "q", "r", "s", "t", "u", "v", "w", "x", "y", "z">>

\* the lower-case letter of each upper-case one
LowerOf ==
    [c \in Range(UpperLetters) |->
        LowerLetters[CHOOSE n \in DOMAIN UpperLetters : UpperLetters[n] = c]]

\* String.prototype.toLowerCase
toLowerCase(chars) ==
    [i \in DOMAIN chars |->
        IF chars[i] \in DOMAIN LowerOf THEN LowerOf[chars[i]] ELSE chars[i]]

\* the position of each letter in the alphabet
Alphabet ==
    [c \in Range(UpperLetters) \cup Range(LowerLetters) |->
        CHOOSE n \in DOMAIN LowerLetters : LowerLetters[n] = c \/ UpperLetters[n] = c]

-----------------------------------------------------------------------------
(* Lines of text *)

Line(k, ind, name, ext, desc, ns, card) ==
    [k |-> k, ind |-> ind, name |-> name, ext |-> ext, desc |-> desc,
     ns |-> ns, card |-> card]

NamespaceLine(ind, ns, desc) == Line("namespace", ind, "", "", desc, ns, <<>>)
TypeLine(ind, name, ext, desc) == Line("type", ind, name, ext, desc, <<>>, <<>>)
EnumLine(ind, name, desc) == Line("enum", ind, name, "", desc, <<>>, <<>>)
FuncLine(ind, name) == Line("func", ind, name, "", "none", <<>>, <<>>)
FieldLine(name, type, card) == Line("field", 1, name, type, "none", <<>>, card)
ValueLine(name) == Line("value", 1, name, "", "none", <<>>, <<>>)
\* import a.b.C, import a.b.*: the path as its dot-separated components
ImportLine(ind, path) == Line("import", ind, "", "", "none", path, <<>>)
CloseLine == Line("close", 0, "", "", "none", <<>>, <<>>)
JunkLine == Line("junk", 0, "", "", "none", <<>>, <<>>)

\* the description captured from `: <"...">`; `description || undefined`
Description(line) == IF line.desc = "text" THEN "d" ELSE ""

-----------------------------------------------------------------------------
(* RosettaParser.parseCardinality *)

Digits == {"0", "1", "2", "3", "4", "5", "6", "7", "8", "9"}

DigitValue ==
    "0" :> 0 @@ "1" :> 1 @@ "2" :> 2 @@ "3" :> 3 @@ "4" :> 4 @@
    "5" :> 5 @@ "6" :> 6 @@ "7" :> 7 @@ "8" :> 8 @@ "9" :> 9

DigitChar ==
    0 :> "0" @@ 1 :> "1" @@ 2 :> "2" @@ 3 :> "3" @@ 4 :> "4" @@
    5 :> "5" @@ 6 :> "6" @@ 7 :> "7" @@ 8 :> "8" @@ 9 :> "9"

\* parseInt(s, 10) of a string of decimal digits
RECURSIVE parseInt(_)
parseInt(s) ==
    IF s = <<>> THEN 0
    ELSE 10 * parseInt(SubSeq(s, 1, Len(s) - 1)) + DigitValue[Last(s)]

\* the index just past the run of digits (\d+, greedy) that starts at i
RECURSIVE DigitRunEnd(_, _)
DigitRunEnd(s, i) ==
    IF i <= Len(s) /\ s[i] \in Digits THEN DigitRunEnd(s, i + 1) ELSE i

\* /(\d+)\.\.(\d+|\*)/ matches s starting at index i
CardinalityMatchAt(s, i) ==
    LET j == DigitRunEnd(s, i) IN
    /\ j > i
    /\ j + 2 <= Len(s)
    /\ s[j] = "."
    /\ s[j + 1] = "."
    /\ s[j + 2] \in Digits \cup {"*"}

\* cardinalityStr.match(/(\d+)\.\.(\d+|\*)/): the leftmost match, or Undefined
CardinalityMatch(s) ==
    LET starts == {i \in 1..Len(s) : CardinalityMatchAt(s, i)} IN
    IF starts = {} THEN Undefined
    ELSE LET i == CHOOSE a \in starts : \A b \in starts : a <= b
             j == DigitRunEnd(s, i)
         IN [g1 |-> SubSeq(s, i, j - 1),
             g2 |-> IF s[j + 2] = "*" THEN <<"*">>
                    ELSE SubSeq(s, j + 2, DigitRunEnd(s, j + 2) - 1)]

\* Cardinality.max is a number or the string '*'
Unbounded == [unbounded |-> TRUE, n |-> 0]
Bounded(n) == [unbounded |-> FALSE, n |-> n]

NewCardinality(min, max, isRequired, isMultiple) ==
    [min |-> min, max |-> max, isRequired |-> isRequired, isMultiple |-> isMultiple]

parseCardinalityMutant(s) ==
    LET match == CardinalityMatch(s) IN
    IF match = Undefined THEN NewCardinality(1, Bounded(1), TRUE, FALSE)
    ELSE LET min == parseInt(match.g1)
             max == IF match.g2 = <<"*">> THEN Unbounded
                    ELSE Bounded(parseInt(match.g2))
         IN NewCardinality(min, max, min > 0, max.unbounded \/ max.n > 0)

parseCardinality(s) ==
    LET match == CardinalityMatch(s) IN
    IF match = Undefined THEN NewCardinality(1, Bounded(1), TRUE, FALSE)
    ELSE LET min == parseInt(match.g1)
             max == IF match.g2 = <<"*">> THEN Unbounded
                    ELSE Bounded(parseInt(match.g2))
         IN NewCardinality(min, max, min > 0, max.unbounded \/ max.n > 1)

-----------------------------------------------------------------------------
(* RosettaParser: block extraction *)

\* the least index j in from..Len(text) whose line is in S, or Len(text)+1
RECURSIVE FirstLine(_, _, _)
FirstLine(text, from, S) ==
    IF from > Len(text) THEN Len(text) + 1
    ELSE IF text[from] \in S THEN from
    ELSE FirstLine(text, from + 1, S)

\* `type\s+(\w+)(?:\s+extends\s+(\w+))?\s*:\s*<"([^"]*)">` and
\* `enum\s+(\w+)\s*:\s*<"([^"]*)">` are not anchored: they match a declaration
\* whatever precedes it on its line, and only one that has the `: <"...">` part
DeclarationLines(text, keyword) ==
    {text[i] : i \in {j \in DOMAIN text : text[j].k = keyword /\ text[j].desc # "none"}}

\* the lookahead (?=\ntype\s|\nenum\s|\nfunc\s|$): a line that starts, in
\* column 0, with one of the three keywords
BoundaryLines(text) ==
    {text[i] : i \in {j \in DOMAIN text :
        text[j].k \in {"type", "enum", "func"} /\ text[j].ind = 0}}

\* the successive matches of the (global) block regex from line `from` on: each
\* match starts at a declaration, its body runs to the next boundary line or to
\* the end of input, and the search resumes where the match ended
RECURSIVE Blocks(_, _, _)
Blocks(text, keyword, from) ==
    LET start == FirstLine(text, from, DeclarationLines(text, keyword)) IN
    IF start > Len(text) THEN <<>>
    ELSE LET end == FirstLine(text, start + 1, BoundaryLines(text)) IN
         <<[line |-> start,
            name |-> text[start].name,
            extends |-> text[start].ext,
            description |-> Description(text[start]),
            body |-> SubSeq(text, start + 1, end - 1)]>>
         \o Blocks(text, keyword, end)

\* getLineNumber(content, match.index): the 1-based line of the match start
getLineNumber(block) == block.line

Field(name, type, card) == [name |-> name, type |-> type, cardinality |-> card]

\* /^\s*(\w+)\s+([\w<>]+)\s+\(([^)]+)\)(?:\s*<"([^"]*)")?/gm over the body:
\* a line with nothing between its parentheses is no match
RECURSIVE extractFields(_)
extractFields(body) ==
    IF body = <<>> THEN <<>>
    ELSE (IF Head(body).k = "field" /\ Head(body).card # <<>>
          THEN <<Field(Head(body).name, Head(body).ext,
                       parseCardinality(Head(body).card))>>
          ELSE <<>>)
         \o extractFields(Tail(body))

Location(line) == [line |-> line, column |-> 0]

ParseError(message, name, line) ==
    [message |-> message, name |-> name, location |-> Location(line),
     severity |-> "error"]

RosettaType(block) ==
    [name |-> block.name,
     description |-> block.description,
     extends |-> block.extends,
     fields |-> extractFields(block.body),
     location |-> Location(getLineNumber(block))]

\* the loop of extractTypes over the matches; `throws` holds the lines of the
\* matches whose extraction raises inside the try
RECURSIVE TypesOfMutant(_, _)
TypesOfMutant(blocks, throws) ==
    IF blocks = <<>> THEN <<>>
    ELSE IF Head(blocks).line \in throws THEN <<>>
    ELSE <<RosettaType(Head(blocks))>> \o TypesOfMutant(Tail(blocks), throws)

RECURSIVE TypesOf(_, _)
TypesOf(blocks, throws) ==
    IF blocks = <<>> THEN <<>>
    ELSE (IF Head(blocks).line \in throws THEN <<>> ELSE <<RosettaType(Head(blocks))>>)
         \o TypesOf(Tail(blocks), throws)

RECURSIVE TypeErrorsOf(_, _)
TypeErrorsOf(blocks, throws) ==
    IF blocks = <<>> THEN <<>>
    ELSE (IF Head(blocks).line \in throws
          THEN <<ParseError("Error parsing type", Head(blocks).name, Head(blocks).line)>>
          ELSE <<>>)
         \o TypeErrorsOf(Tail(blocks), throws)

extractTypes(text, throws) == TypesOf(Blocks(text, "type", 1), throws)

\* the words (\w+) of a cardinality string, in order
RECURSIVE CardinalityWords(_, _)
CardinalityWords(s, word) ==
    IF s = <<>> THEN (IF word = "" THEN <<>> ELSE <<word>>)
    ELSE IF Head(s) \in Digits THEN CardinalityWords(Tail(s), word \o Head(s))
    ELSE (IF word = "" THEN <<>> ELSE <<word>>) \o CardinalityWords(Tail(s), "")

\* the words (\w+) of a line, in order
Words(line) ==
    CASE line.k = "namespace" ->
            <<"namespace">> \o line.ns \o (IF line.desc = "text" THEN <<"d">> ELSE <<>>)
      [] line.k \in {"type", "enum"} ->
            <<line.k, line.name>>
            \o (IF line.ext # "" THEN <<"extends", line.ext>> ELSE <<>>)
            \o (IF line.desc = "text" THEN <<"d">> ELSE <<>>)
      [] line.k = "func" -> <<"func", line.name>>
      [] line.k = "import" -> <<"import">> \o SeqFilter(line.ns, Range(line.ns) \ {"*"})
      [] line.k = "field" -> <<line.name, line.ext>> \o CardinalityWords(line.card, "")
      [] line.k = "value" -> <<line.name>>
      [] line.k = "junk" -> <<"this", "is", "not", "valid", "rosetta", "syntax">>
      [] OTHER -> <<>>

RECURSIVE BodyWords(_)
BodyWords(body) ==
    IF body = <<>> THEN <<>> ELSE Words(Head(body)) \o BodyWords(Tail(body))

EnumValue(name) == [name |-> name]

\* /(\w+)(?:\s+displayName\s+"([^"]+)")?(?:\s*<"([^"]*)">)?/g over the body:
\* every word is a value, the three keywords excepted
RECURSIVE ValuesOf(_)
ValuesOf(words) ==
    IF words = <<>> THEN <<>>
    ELSE (IF Head(words) \in {"enum", "type", "func"} THEN <<>>
          ELSE <<EnumValue(Head(words))>>)
         \o ValuesOf(Tail(words))

extractEnumValues(body) == ValuesOf(BodyWords(body))

RosettaEnum(block) ==
    [name |-> block.name,
     description |-> block.description,
     values |-> extractEnumValues(block.body),
     location |-> Location(getLineNumber(block))]

RECURSIVE EnumsOf(_, _)
EnumsOf(blocks, throws) ==
    IF blocks = <<>> THEN <<>>
    ELSE (IF Head(blocks).line \in throws THEN <<>> ELSE <<RosettaEnum(Head(blocks))>>)
         \o EnumsOf(Tail(blocks), throws)

RECURSIVE EnumErrorsOf(_, _)
EnumErrorsOf(blocks, throws) ==
    IF blocks = <<>> THEN <<>>
    ELSE (IF Head(blocks).line \in throws
          THEN <<ParseError("Error parsing enum", Head(blocks).name, Head(blocks).line)>>
          ELSE <<>>)
         \o EnumErrorsOf(Tail(blocks), throws)

extractEnums(text, throws) == EnumsOf(Blocks(text, "enum", 1), throws)

\* /^namespace\s+([\w.]+)\s*:\s*<"([^"]*)">?/m: the first line that starts in
\* column 0 with `namespace <name> : <"`
extractNamespace(text) ==
    LET i == FirstLine(text, 1,
                 {text[j] : j \in {n \in DOMAIN text :
                     text[n].k = "namespace" /\ text[n].ind = 0 /\ text[n].desc # "none"}})
    IN IF i > Len(text) THEN Undefined
       ELSE [name |-> text[i].ns, description |-> Description(text[i])]

Import(path, isWildcard) == [path |-> path, isWildcard |-> isWildcard]

\* /^import\s+([\w.*]+)/gm: every line that starts in column 0 with `import
\* <path>`, in order; isWildcard is match[1].includes('*')
RECURSIVE extractImports(_)
extractImports(text) ==
    IF text = <<>> THEN <<>>
    ELSE (IF Head(text).k = "import" /\ Head(text).ind = 0
          THEN <<Import(Head(text).ns, "*" \in Range(Head(text).ns))>>
          ELSE <<>>)
         \o extractImports(Tail(text))

RosettaFile(filePath, namespace, imports, types, enums) ==
    [filePath |-> filePath, namespace |-> namespace, imports |-> imports,
     types |-> types, enums |-> enums]

\* where an exception is raised during a parse: nowhere, outside the
\* per-element try blocks, or while extracting the match that starts at `line`
NoFault == [at |-> "none", line |-> 0]
OuterFault == [at |-> "outer", line |-> 0]
ElementFault(line) == [at |-> "element", line |-> line]

\* the lines of the matches whose extraction raises
Throws(f) == IF f.at = "element" THEN {f.line} ELSE {}

\* RosettaParser.parse(content, filePath) when the exception f is raised
parse(text, filePath, f) ==
    IF f = OuterFault
    THEN [file |-> RosettaFile(filePath, Undefined, <<>>, <<>>, <<>>),
          errors |-> <<ParseError("Failed to parse file", "", 0)>>]
    ELSE [file |-> RosettaFile(filePath, extractNamespace(text),
                               extractImports(text),
                               extractTypes(text, Throws(f)),
                               extractEnums(text, Throws(f))),
          errors |-> TypeErrorsOf(Blocks(text, "type", 1), Throws(f))
                     \o EnumErrorsOf(Blocks(text, "enum", 1), Throws(f))]

-----------------------------------------------------------------------------
(* SymbolIndexer *)

SymbolInfo(name, kind, namespace, filePath, location, documentation) ==
    [name |-> name, kind |-> kind, namespace |-> namespace, filePath |-> filePath,
     location |-> location, documentation |-> documentation]

\* the three tables of a SymbolIndexer
Index(f, t, e) == [files |-> f, typeIndex |-> t, enumIndex |-> e]

\* files.clear(); typeIndex.clear(); enumIndex.clear()
EmptyIndex == Index(EmptyMap, EmptyMap, EmptyMap)

\* result.file.namespace?.name || ''
NamespaceName(file) ==
    IF file.namespace = Undefined THEN <<>> ELSE file.namespace.name

\* namespace ? `${namespace}.${name}` : name
QualifiedName(namespace, name) == namespace \o <<name>>

\* the loop registering a definition only under names not yet in the table
RECURSIVE RegisterFirstWins(_, _, _, _, _)
RegisterFirstWins(table, defs, kind, namespace, filePath) ==
    IF defs = <<>> THEN table
    ELSE LET d == Head(defs)
             bare == IF <<d.name>> \in DOMAIN table THEN table
                     ELSE MapSet(table, <<d.name>>,
                             SymbolInfo(<<d.name>>, kind, namespace, filePath,
                                        d.location, d.description))
             both == IF QualifiedName(namespace, d.name) \in DOMAIN bare THEN bare
                     ELSE MapSet(bare, QualifiedName(namespace, d.name),
                             SymbolInfo(QualifiedName(namespace, d.name), kind, namespace,
                                        filePath, d.location, d.description))
         IN RegisterFirstWins(both, Tail(defs), kind, namespace, filePath)

\* the loop registering every definition under its bare name only
RECURSIVE RegisterMutant(_, _, _, _, _)
RegisterMutant(table, defs, kind, namespace, filePath) ==
    IF defs = <<>> THEN table
    ELSE LET d == Head(defs)
             bare == MapSet(table, <<d.name>>,
                        SymbolInfo(<<d.name>>, kind, namespace, filePath,
                                   d.location, d.description))
         IN RegisterMutant(bare, Tail(defs), kind, namespace, filePath)

\* the loop registering every definition under its bare and its qualified name
RECURSIVE Register(_, _, _, _, _)
Register(table, defs, kind, namespace, filePath) ==
    IF defs = <<>> THEN table
    ELSE LET d == Head(defs)
             bare == MapSet(table, <<d.name>>,
                        SymbolInfo(<<d.name>>, kind, namespace, filePath,
                                   d.location, d.description))
             both == MapSet(bare, QualifiedName(namespace, d.name),
                        SymbolInfo(QualifiedName(namespace, d.name), kind, namespace,
                                   filePath, d.location, d.description))
         IN Register(both, Tail(defs), kind, namespace, filePath)

\* a file that exists and cannot be read
Unreadable == [unreadable |-> TRUE]

\* parser.parseFile(filePath): readFileSync raises when there is no file or it
\* cannot be read
CanRead(d, filePath) == d[filePath] # Absent /\ d[filePath] # Unreadable

parseFile(d, filePath) == parse(d[filePath], filePath, NoFault)

indexFileMutant(idx, d, filePath) ==
    IF ~CanRead(d, filePath) THEN idx
    ELSE LET file == parseFile(d, filePath).file
             old == MapGet(idx.files, filePath)
             merged == IF old = Undefined THEN file
                       ELSE [file EXCEPT !.types = old.types \o file.types,
                                         !.enums = old.enums \o file.enums]
             namespace == NamespaceName(file)
         IN Index(MapSet(idx.files, filePath, merged),
                  Register(idx.typeIndex, file.types, "Type", namespace, filePath),
                  Register(idx.enumIndex, file.enums, "Enum", namespace, filePath))

\* indexFile registering an empty File when the file cannot be read
indexFileUnreadMutant(idx, d, filePath) ==
    IF ~CanRead(d, filePath)
    THEN Index(MapSet(idx.files, filePath, RosettaFile(filePath, Undefined, <<>>, <<>>, <<>>)),
               idx.typeIndex, idx.enumIndex)
    ELSE LET file == parseFile(d, filePath).file
             namespace == NamespaceName(file)
         IN Index(MapSet(idx.files, filePath, file),
                  Register(idx.typeIndex, file.types, "Type", namespace, filePath),
                  Register(idx.enumIndex, file.enums, "Enum", namespace, filePath))

\* SymbolIndexer.indexFile(filePath) on the disk d
indexFile(idx, d, filePath) ==
    IF ~CanRead(d, filePath) THEN idx
    ELSE LET file == parseFile(d, filePath).file
             namespace == NamespaceName(file)
         IN Index(MapSet(idx.files, filePath, file),
                  Register(idx.typeIndex, file.types, "Type", namespace, filePath),
                  Register(idx.enumIndex, file.enums, "Enum", namespace, filePath))

\* the .rosetta files on disk
Existing(d) == {p \in DOMAIN d : d[p] # Absent}

\* the folder opened as the workspace
Root == "."

\* a directory entry of the file system, which readdirSync can list or not
Directory(readable) == [directory |-> TRUE, readable |-> readable]

\* the paths of the file system: path.join(dirname, name)
PathTable ==
    {[path |-> "a.rosetta", dirname |-> Root, name |-> "a.rosetta", directory |-> FALSE],
     [path |-> "b.rosetta", dirname |-> Root, name |-> "b.rosetta", directory |-> FALSE],
     [path |-> "notes.txt", dirname |-> Root, name |-> "notes.txt", directory |-> FALSE],
     [path |-> "sub", dirname |-> Root, name |-> "sub", directory |-> TRUE],
     [path |-> "sub/c.rosetta", dirname |-> "sub", name |-> "c.rosetta", directory |-> FALSE],
     [path |-> "node_modules", dirname |-> Root, name |-> "node_modules", directory |-> TRUE],
     [path |-> "node_modules/d.rosetta", dirname |-> "node_modules", name |-> "d.rosetta",
      directory |-> FALSE],
     [path |-> ".git", dirname |-> Root, name |-> ".git", directory |-> TRUE],
     [path |-> ".git/e.rosetta", dirname |-> ".git", name |-> "e.rosetta",
      directory |-> FALSE]}

\* path.dirname(fullPath)
DirName(fullPath) == (CHOOSE e \in PathTable : e.path = fullPath).dirname

\* entry.name
BaseName(fullPath) == (CHOOSE e \in PathTable : e.path = fullPath).name

\* entry.name.startsWith('.')
StartsWithDot(name) == name \in {".git"}

\* entry.name.endsWith('.rosetta')
EndsWithRosetta(name) ==
    name \in {"a.rosetta", "b.rosetta", "c.rosetta", "d.rosetta", "e.rosetta"}

\* entry.isDirectory(): the path is one of a directory, and there is one
IsDirectory(d, fullPath) ==
    (CHOOSE e \in PathTable : e.path = fullPath).directory /\ d[fullPath] # Absent

\* entry.isFile(): the path is one of a file, and there is one
IsFile(d, fullPath) ==
    ~(CHOOSE e \in PathTable : e.path = fullPath).directory /\ d[fullPath] # Absent

\* fs.readdirSync(folderPath) does not raise: the folder is a directory that
\* can be read (the workspace folder is one unless the file system says not)
CanList(d, folderPath) ==
    IF folderPath \in DOMAIN d THEN d[folderPath] = Directory(TRUE)
    ELSE folderPath = Root

\* fs.readdirSync(folderPath, { withFileTypes: true }): the entries of the
\* folder, in the order the file system lists them
readdirSync(d, folderPath, order) ==
    SeqFilter(order, {q \in DOMAIN d : q # Root /\ d[q] # Absent /\ DirName(q) = folderPath})

RECURSIVE indexFolder(_, _, _, _)
\* SymbolIndexer.indexFolder: the loop over the entries readdirSync returned
RECURSIVE IndexEntries(_, _, _, _)
IndexEntries(idx, d, entries, order) ==
    IF entries = <<>> THEN idx
    ELSE LET fullPath == Head(entries)
             name == BaseName(fullPath)
             indexed ==
                IF IsDirectory(d, fullPath)
                THEN (IF name # "node_modules" /\ ~StartsWithDot(name)
                      THEN indexFolder(idx, d, fullPath, order)
                      ELSE idx)
                ELSE IF IsFile(d, fullPath) /\ EndsWithRosetta(name)
                THEN indexFile(idx, d, fullPath)
                ELSE idx
         IN IndexEntries(indexed, d, Tail(entries), order)

\* SymbolIndexer.indexFolder(folderPath): a folder readdirSync cannot list is
\* logged and skipped
indexFolder(idx, d, folderPath, order) ==
    IF ~CanList(d, folderPath) THEN idx
    ELSE IndexEntries(idx, d, readdirSync(d, folderPath, order), order)

\* vscode.workspace.workspaceFolders when folders are open: the list of them
WorkspaceFolders(list) == [folders |-> list]

\* the loop over workspaceFolders
RECURSIVE IndexFolders(_, _, _, _)
IndexFolders(idx, d, folders, order) ==
    IF folders = <<>> THEN idx
    ELSE IndexFolders(indexFolder(idx, d, Head(folders), order), d, Tail(folders), order)

\* indexWorkspace without the three clear() calls
indexWorkspaceMutant(idx, d, folders, order) ==
    IF folders = Undefined THEN idx
    ELSE IndexFolders(idx, d, folders.folders, order)

\* SymbolIndexer.indexWorkspace() on the index idx, the file system listing
\* entries in `order`
indexWorkspace(idx, d, folders, order) ==
    IF folders = Undefined THEN EmptyIndex
    ELSE IndexFolders(EmptyIndex, d, folders.folders, order)

\* array.find(x => x.name === name)
Find(defs, name) ==
    LET hits == {i \in DOMAIN defs : defs[i].name = name} IN
    IF hits = {} THEN Undefined
    ELSE defs[CHOOSE i \in hits : \A j \in hits : i <= j]

\* getType answering from the SymbolInfo when the owning File has no such Type
getTypeMutant(idx, name) ==
    LET symbol == MapGet(idx.typeIndex, name)
        cached == [name |-> Last(symbol.name), description |-> symbol.documentation,
                   extends |-> "", fields |-> <<>>, location |-> symbol.location]
    IN
    IF symbol = Undefined THEN Undefined
    ELSE LET file == MapGet(idx.files, symbol.filePath) IN
         IF file = Undefined THEN cached
         ELSE IF Find(file.types, Last(symbol.name)) = Undefined THEN cached
         ELSE Find(file.types, Last(symbol.name))

\* SymbolIndexer.getType(name)
getType(idx, name) ==
    LET symbol == MapGet(idx.typeIndex, name) IN
    IF symbol = Undefined THEN Undefined
    ELSE LET file == MapGet(idx.files, symbol.filePath) IN
         IF file = Undefined THEN Undefined
         ELSE Find(file.types, Last(symbol.name))

\* SymbolIndexer.getEnum(name)
getEnum(idx, name) ==
    LET symbol == MapGet(idx.enumIndex, name) IN
    IF symbol = Undefined THEN Undefined
    ELSE LET file == MapGet(idx.files, symbol.filePath) IN
         IF file = Undefined THEN Undefined
         ELSE Find(file.enums, Last(symbol.name))

\* SymbolIndexer.getSymbol(name)
getSymbol(idx, name) ==
    IF MapGet(idx.typeIndex, name) # Undefined THEN MapGet(idx.typeIndex, name)
    ELSE MapGet(idx.enumIndex, name)

\* the indexer of the running extension
indexer == Index(files, typeIndex, enumIndex)

-----------------------------------------------------------------------------
(* DiagnosticProvider *)

Rule(id, severity, enabled) == [id |-> id, severity |-> severity, enabled |-> enabled]

VALIDATION_RULES ==
    [UNDEFINED_TYPE |-> Rule("undefined-type", "error", TRUE),
     CIRCULAR_INHERITANCE |-> Rule("circular-inheritance", "error", TRUE),
     INVALID_CARDINALITY |-> Rule("invalid-cardinality", "error", TRUE),
     MISSING_DESCRIPTION |-> Rule("missing-description", "warning", FALSE),
     DUPLICATE_FIELD |-> Rule("duplicate-field", "error", TRUE),
     DUPLICATE_ENUM_VALUE |-> Rule("duplicate-enum-value", "error", TRUE),
     EMPTY_TYPE |-> Rule("empty-type", "warning", TRUE),
     EMPTY_ENUM |-> Rule("empty-enum", "error", TRUE)]

primitiveTypes ==
    {"string", "int", "number", "boolean", "date", "time", "dateTime", "zonedDateTime"}

\* new vscode.Range(0, 0, 0, 0)
NoRange == [line |-> 0, found |-> FALSE]
\* the range of a match that starts on line i of the text (0-based in the editor)
RangeAt(i) == [line |-> i - 1, found |-> TRUE]

\* the range of the first line of `text` that is in S
FirstRange(text, S) ==
    LET i == FirstLine(text, 1, S) IN
    IF i > Len(text) THEN NoRange ELSE RangeAt(i)

\* text.match(/type\s+${typeName}\b/)
findTypeLocation(text, typeName) ==
    FirstRange(text, {text[i] : i \in {j \in DOMAIN text :
        text[j].k = "type" /\ text[j].name = typeName}})

\* text.match(/enum\s+${enumName}\b/)
findEnumLocation(text, enumName) ==
    FirstRange(text, {text[i] : i \in {j \in DOMAIN text :
        text[j].k = "enum" /\ text[j].name = enumName}})

\* text.match(/type\s+${typeName}\s+extends\s+${extendsName}\b/)
findExtendsLocation(text, typeName, extendsName) ==
    FirstRange(text, {text[i] : i \in {j \in DOMAIN text :
        text[j].k = "type" /\ text[j].name = typeName /\ text[j].ext = extendsName}})

\* /type\s+${typeName}[\s\S]*?(?=\ntype\s|\nenum\s|$)/, then
\* /\b${fieldName}\s+\w+\s+\(/ inside that match; no \b follows ${typeName},
\* so the first type whose name starts with typeName is the one searched
findFieldLocation(text, typeName, fieldName) ==
    LET start == FirstLine(text, 1, {text[i] : i \in {j \in DOMAIN text :
                     text[j].k = "type" /\ StartsWith(text[j].name, typeName)}})
    IN
    IF start > Len(text) THEN NoRange
    ELSE LET end == FirstLine(text, start + 1, {text[i] : i \in {j \in DOMAIN text :
                        text[j].k \in {"type", "enum"} /\ text[j].ind = 0}})
             hit == FirstLine(text, start + 1, {text[i] : i \in {j \in DOMAIN text :
                        text[j].k = "field" /\ text[j].name = fieldName}})
         IN IF hit < end THEN RangeAt(hit) ELSE NoRange

\* new vscode.Diagnostic(range, message, severity); the message is the
\* sequence of the pieces of its template string; the constructor leaves the
\* optional members code and source unset, and the provider never sets them
Diagnostic(range, message, severity) ==
    [range |-> range, message |-> message, severity |-> severity,
     code |-> Undefined, source |-> Undefined]

hasCircularInheritanceMutant(idx, typeName, visited) ==
    LET type == getType(idx, <<typeName>>) IN
    /\ type # Undefined
    /\ type.extends # ""
    /\ type.extends \in visited \cup {typeName}

\* DiagnosticProvider.hasCircularInheritance(typeName, visited)
RECURSIVE hasCircularInheritance(_, _, _)
hasCircularInheritance(idx, typeName, visited) ==
    IF typeName \in visited THEN TRUE
    ELSE LET type == getType(idx, <<typeName>>) IN
         IF type # Undefined /\ type.extends # ""
         THEN hasCircularInheritance(idx, type.extends, visited \cup {typeName})
         ELSE FALSE

\* the check of the parent type, lines 93-96: the diagnostic is pushed when
\* the parent is no primitive and getType does not resolve it
IsUndefinedParent(idx, extends) ==
    /\ extends \notin primitiveTypes
    /\ getType(idx, <<extends>>) = Undefined

IsUndefinedFieldTypeMutant(idx, fieldType) ==
    /\ fieldType \notin primitiveTypes
    /\ getType(idx, <<fieldType>>) = Undefined

\* the check of a field type, lines 138-142
IsUndefinedFieldType(idx, fieldType) ==
    /\ fieldType \notin primitiveTypes
    /\ getType(idx, <<fieldType>>) = Undefined
    /\ getEnum(idx, <<fieldType>>) = Undefined

\* `${n}` for a number n
RECURSIVE NumberString(_)
NumberString(n) ==
    IF n < 10 THEN DigitChar[n] ELSE NumberString(n \div 10) \o DigitChar[n % 10]

When(cond, diagnostic) == IF cond THEN <<diagnostic>> ELSE <<>>

\* the duplicate-field loop with fieldNames holding the previous name only
RECURSIVE DuplicateFieldsMutant(_, _, _, _)
DuplicateFieldsMutant(text, type, fields, seen) ==
    IF fields = <<>> THEN <<>>
    ELSE When(Head(fields).name \in seen,
              Diagnostic(findFieldLocation(text, type.name, Head(fields).name),
                         <<"Duplicate field name '", Head(fields).name,
                           "' in type '", type.name, "'">>,
                         VALIDATION_RULES.DUPLICATE_FIELD.severity))
         \o DuplicateFieldsMutant(text, type, Tail(fields), {Head(fields).name})

\* the duplicate-field loop over type.fields, `seen` being fieldNames
RECURSIVE DuplicateFields(_, _, _, _)
DuplicateFields(text, type, fields, seen) ==
    IF fields = <<>> THEN <<>>
    ELSE When(Head(fields).name \in seen,
              Diagnostic(findFieldLocation(text, type.name, Head(fields).name),
                         <<"Duplicate field name '", Head(fields).name,
                           "' in type '", type.name, "'">>,
                         VALIDATION_RULES.DUPLICATE_FIELD.severity))
         \o DuplicateFields(text, type, Tail(fields), seen \cup {Head(fields).name})

\* the body of the `for (const field of type.fields)` loop
ValidateField(idx, text, type, field) ==
    When(VALIDATION_RULES.UNDEFINED_TYPE.enabled /\ IsUndefinedFieldType(idx, field.type),
         Diagnostic(findFieldLocation(text, type.name, field.name),
                    <<"Field type '", field.type, "' is not defined">>,
                    VALIDATION_RULES.UNDEFINED_TYPE.severity))
    \o When(/\ VALIDATION_RULES.INVALID_CARDINALITY.enabled
            /\ ~field.cardinality.max.unbounded
            /\ field.cardinality.min > field.cardinality.max.n,
            Diagnostic(findFieldLocation(text, type.name, field.name),
                       <<"Invalid cardinality for field '", field.name, "': min (",
                         NumberString(field.cardinality.min), ") > max (",
                         NumberString(field.cardinality.max.n), ")">>,
                       VALIDATION_RULES.INVALID_CARDINALITY.severity))
    \o When(VALIDATION_RULES.MISSING_DESCRIPTION.enabled,
            Diagnostic(findFieldLocation(text, type.name, field.name),
                       <<"Field '", field.name, "' is missing a description">>,
                       VALIDATION_RULES.MISSING_DESCRIPTION.severity))

RECURSIVE ValidateFields(_, _, _, _)
ValidateFields(idx, text, type, fields) ==
    IF fields = <<>> THEN <<>>
    ELSE ValidateField(idx, text, type, Head(fields))
         \o ValidateFields(idx, text, type, Tail(fields))

\* the body of the `for (const type of file.types)` loop
ValidateType(idx, text, type) ==
    When(/\ VALIDATION_RULES.EMPTY_TYPE.enabled
         /\ type.fields = <<>>
         /\ type.extends = "",
         Diagnostic(findTypeLocation(text, type.name),
                    <<"Type '", type.name, "' has no fields defined">>,
                    VALIDATION_RULES.EMPTY_TYPE.severity))
    \o When(VALIDATION_RULES.MISSING_DESCRIPTION.enabled /\ type.description = "",
            Diagnostic(findTypeLocation(text, type.name),
                       <<"Type '", type.name, "' is missing a description">>,
                       VALIDATION_RULES.MISSING_DESCRIPTION.severity))
    \o When(/\ type.extends # ""
            /\ VALIDATION_RULES.UNDEFINED_TYPE.enabled
            /\ IsUndefinedParent(idx, type.extends),
            Diagnostic(findExtendsLocation(text, type.name, type.extends),
                       <<"Parent type '", type.extends, "' is not defined">>,
                       VALIDATION_RULES.UNDEFINED_TYPE.severity))
    \o When(/\ VALIDATION_RULES.CIRCULAR_INHERITANCE.enabled
            /\ type.extends # ""
            /\ hasCircularInheritance(idx, type.name, {}),
            Diagnostic(findExtendsLocation(text, type.name, type.extends),
                       <<"Type '", type.name, "' has circular inheritance">>,
                       VALIDATION_RULES.CIRCULAR_INHERITANCE.severity))
    \o (IF VALIDATION_RULES.DUPLICATE_FIELD.enabled
        THEN DuplicateFields(text, type, type.fields, {})
        ELSE <<>>)
    \o ValidateFields(idx, text, type, type.fields)

\* DiagnosticProvider.validateTypes(file, document, diagnostics)
RECURSIVE validateTypes(_, _, _)
validateTypes(idx, text, types) ==
    IF types = <<>> THEN <<>>
    ELSE ValidateType(idx, text, Head(types)) \o validateTypes(idx, text, Tail(types))

\* the duplicate-value loop over enumDef.values, `seen` being valueNames
RECURSIVE DuplicateValues(_, _, _, _)
DuplicateValues(text, enumDef, values, seen) ==
    IF values = <<>> THEN <<>>
    ELSE When(Head(values).name \in seen,
              Diagnostic(findEnumLocation(text, enumDef.name),
                         <<"Duplicate enum value '", Head(values).name,
                           "' in enum '", enumDef.name, "'">>,
                         VALIDATION_RULES.DUPLICATE_ENUM_VALUE.severity))
         \o DuplicateValues(text, enumDef, Tail(values), seen \cup {Head(values).name})

\* the body of the `for (const enumDef of file.enums)` loop
ValidateEnum(text, enumDef) ==
    When(VALIDATION_RULES.EMPTY_ENUM.enabled /\ enumDef.values = <<>>,
         Diagnostic(findEnumLocation(text, enumDef.name),
                    <<"Enum '", enumDef.name, "' has no values defined">>,
                    VALIDATION_RULES.EMPTY_ENUM.severity))
    \o When(VALIDATION_RULES.MISSING_DESCRIPTION.enabled /\ enumDef.description = "",
            Diagnostic(findEnumLocation(text, enumDef.name),
                       <<"Enum '", enumDef.name, "' is missing a description">>,
                       VALIDATION_RULES.MISSING_DESCRIPTION.severity))
    \o (IF VALIDATION_RULES.DUPLICATE_ENUM_VALUE.enabled
        THEN DuplicateValues(text, enumDef, enumDef.values, {})
        ELSE <<>>)

\* DiagnosticProvider.validateEnums(file, document, diagnostics)
RECURSIVE validateEnums(_, _)
validateEnums(text, enums) ==
    IF enums = <<>> THEN <<>>
    ELSE ValidateEnum(text, Head(enums)) \o validateEnums(text, Tail(enums))

\* the diagnostics made of the parser's errors
RECURSIVE ParserDiagnostics(_)
ParserDiagnostics(errors) ==
    IF errors = <<>> THEN <<>>
    ELSE <<Diagnostic(IF Head(errors).location.line > 1
                      THEN RangeAt(Head(errors).location.line)
                      ELSE NoRange,
                      <<Head(errors).message, Head(errors).name>>,
                      Head(errors).severity)>>
         \o ParserDiagnostics(Tail(errors))

\* DiagnosticProvider.validateDocument(document): the diagnostics set for a
\* rosetta document with the given text
validateDocument(idx, text, filePath) ==
    LET parsed == parse(text, filePath, NoFault) IN
    ParserDiagnostics(parsed.errors)
    \o validateTypes(idx, text, parsed.file.types)
    \o validateEnums(text, parsed.file.enums)

-----------------------------------------------------------------------------
(* TypeGraphBuilder *)

\* options.maxDepth ?? 3
DefaultMaxDepth == 3

\* GraphOptions: maxDepth is an optional member
GraphOptions(includeFields, includeEnums) ==
    [includeFields |-> includeFields, includeEnums |-> includeEnums]

WithMaxDepth(options, maxDepth) ==
    [maxDepth |-> maxDepth, includeFields |-> options.includeFields,
     includeEnums |-> options.includeEnums]

MaxDepthOf(options) ==
    IF "maxDepth" \in DOMAIN options THEN options.maxDepth ELSE DefaultMaxDepth

\* primitives.includes(typeName)
isPrimitiveType(typeName) ==
    typeName \in {"string", "int", "number", "boolean", "date", "time", "dateTime",
                  "zonedDateTime"}

TypeNode(id, name, kind, namespace, description) ==
    [id |-> id, name |-> name, kind |-> kind, namespace |-> namespace,
     description |-> description]

TypeEdge(from, to, relationshipType, label) ==
    [from |-> from, to |-> to, relationshipType |-> relationshipType, label |-> label]

\* edges.push(edge); this.buildGraphRecursive(typeName, ..., depth, ...): a
\* call waiting to be made, with the edge pushed just before it
Call(edge, typeName, depth) == [edge |-> edge, typeName |-> typeName, depth |-> depth]

\* the for loop over type.fields: an edge and a recursive call per
\* non-primitive field
RECURSIVE FieldCalls(_, _, _, _)
FieldCalls(fields, nodeId, namespace, depth) ==
    IF fields = <<>> THEN <<>>
    ELSE (IF isPrimitiveType(Head(fields).type) THEN <<>>
          ELSE <<Call(TypeEdge(nodeId, QualifiedName(namespace, Head(fields).type),
                               "hasField", Head(fields).name),
                      <<Head(fields).type>>, depth + 1)>>)
         \o FieldCalls(Tail(fields), nodeId, namespace, depth)

\* the edge and the recursive call for the parent, then those for the fields
TypeCalls(type, nodeId, namespace, depth, options) ==
    (IF type.extends # ""
     THEN <<Call(TypeEdge(nodeId, QualifiedName(namespace, type.extends),
                          "extends", "extends"),
                 <<type.extends>>, depth + 1)>>
     ELSE <<>>)
    \o (IF options.includeFields THEN FieldCalls(type.fields, nodeId, namespace, depth)
        ELSE <<>>)

\* if (depth > maxDepth || visited.has(typeName)) return, without the
\* visited set
ReturnsUnvisited(g, typeName, depth) == depth > MaxDepthOf(g.options)

\* the same, one level early
ReturnsAtMaxDepth(g, typeName, depth) ==
    depth >= MaxDepthOf(g.options) \/ typeName \in g.visited

\* if (depth > maxDepth || visited.has(typeName)) return
Returns(g, typeName, depth) ==
    depth > MaxDepthOf(g.options) \/ typeName \in g.visited

\* buildGraphFromType up to its call of buildGraphRecursive: empty nodes,
\* edges and visited set, the call for the root at depth 0 waiting.
\* `expanded` lists the names in the order visited.add was called.
StartGraph(typeName, options) ==
    [typeName |-> typeName, options |-> options,
     nodes |-> EmptyMap, edges |-> <<>>, visited |-> {}, expanded |-> <<>>,
     calls |-> <<Call(None, typeName, 0)>>]

\* one invocation of buildGraphRecursive, the first waiting one, after the
\* edge pushed at its call site; the calls its body makes wait before the rest
buildGraphRecursive(idx, g) ==
    LET call == Head(g.calls)
        typeName == call.typeName
        pushed == [g EXCEPT !.calls = Tail(g.calls),
                            !.edges = IF call.edge = None THEN g.edges
                                      ELSE Append(g.edges, call.edge)]
        type == getType(idx, typeName)
        enumDef == getEnum(idx, typeName)
        namespace == getSymbol(idx, typeName).namespace
        entered == [pushed EXCEPT !.visited = pushed.visited \cup {typeName},
                                  !.expanded = Append(pushed.expanded, typeName)]
    IN  IF Returns(g, typeName, call.depth) THEN pushed
        ELSE IF type # Undefined
        THEN LET nodeId == QualifiedName(namespace, type.name) IN
             [entered EXCEPT
                !.nodes = MapSet(entered.nodes, nodeId,
                              TypeNode(nodeId, type.name, "type", namespace,
                                       type.description)),
                !.calls = TypeCalls(type, nodeId, namespace, call.depth, g.options)
                          \o entered.calls]
        ELSE IF enumDef # Undefined /\ g.options.includeEnums
        THEN LET nodeId == QualifiedName(namespace, enumDef.name) IN
             [entered EXCEPT
                !.nodes = MapSet(entered.nodes, nodeId,
                              TypeNode(nodeId, enumDef.name, "enum", namespace,
                                       enumDef.description))]
        ELSE entered

\* no call is waiting: buildGraphRecursive has returned to buildGraphFromType
Returned(g) == g.calls = <<>>

RECURSIVE RunGraph(_, _)
RunGraph(idx, g) ==
    IF Returned(g) THEN g ELSE RunGraph(idx, buildGraphRecursive(idx, g))

\* TypeGraphBuilder.buildGraphFromType(typeName, options)
buildGraphFromType(idx, typeName, options) ==
    LET g == RunGraph(idx, StartGraph(typeName, options)) IN
    [nodes |-> g.nodes, edges |-> g.edges]

\* buildGraph: the edges pushed for the fields of a Type
RECURSIVE GraphFieldEdges(_, _, _)
GraphFieldEdges(fields, nodeId, namespace) ==
    IF fields = <<>> THEN <<>>
    ELSE (IF isPrimitiveType(Head(fields).type) THEN <<>>
          ELSE <<TypeEdge(nodeId, QualifiedName(namespace, Head(fields).type),
                          "hasField", Head(fields).name)>>)
         \o GraphFieldEdges(Tail(fields), nodeId, namespace)

\* buildGraph: the loop over file.types, g holding nodes and edges
RECURSIVE GraphTypes(_, _, _, _)
GraphTypes(g, types, namespace, options) ==
    IF types = <<>> THEN g
    ELSE LET type == Head(types)
             nodeId == QualifiedName(namespace, type.name)
         IN GraphTypes(
              [g EXCEPT
                 !.nodes = MapSet(g.nodes, nodeId,
                               TypeNode(nodeId, type.name, "type", namespace,
                                        type.description)),
                 !.edges = g.edges
                    \o (IF type.extends # ""
                        THEN <<TypeEdge(nodeId, QualifiedName(namespace, type.extends),
                                        "extends", "extends")>>
                        ELSE <<>>)
                    \o (IF options.includeFields
                        THEN GraphFieldEdges(type.fields, nodeId, namespace)
                        ELSE <<>>)],
              Tail(types), namespace, options)

\* buildGraph: the loop over file.enums
RECURSIVE GraphEnums(_, _, _)
GraphEnums(g, enums, namespace) ==
    IF enums = <<>> THEN g
    ELSE LET enumDef == Head(enums)
             nodeId == QualifiedName(namespace, enumDef.name)
         IN GraphEnums(
              [g EXCEPT
                 !.nodes = MapSet(g.nodes, nodeId,
                               TypeNode(nodeId, enumDef.name, "enum", namespace,
                                        enumDef.description))],
              Tail(enums), namespace)

\* buildGraph: the loop over the files of the index, `paths` being the order
\* in which the Map of files is iterated
RECURSIVE GraphFiles(_, _, _, _)
GraphFiles(g, idx, paths, options) ==
    IF paths = <<>> THEN g
    ELSE LET file == idx.files[Head(paths)]
             namespace == NamespaceName(file)
             typed == GraphTypes(g, file.types, namespace, options)
         IN GraphFiles(IF options.includeEnums
                       THEN GraphEnums(typed, file.enums, namespace)
                       ELSE typed,
                       idx, Tail(paths), options)

\* TypeGraphBuilder.buildGraph(options)
buildGraph(idx, paths, options) ==
    GraphFiles([options |-> options, nodes |-> EmptyMap, edges |-> <<>>],
               idx, paths, options)

\* the graph is being built from a type by buildGraphFromType
Rooted(g) == "calls" \in DOMAIN g

-----------------------------------------------------------------------------
(* SearchProvider *)

\* the fuzzy loop: how many characters of query were found, in order, from
\* position i of lowerName on, queryIndex of them being found already
RECURSIVE FuzzyIndex(_, _, _, _)
FuzzyIndex(lowerName, query, i, queryIndex) ==
    IF i > Len(lowerName) \/ queryIndex >= Len(query) THEN queryIndex
    ELSE FuzzyIndex(lowerName, query, i + 1,
                    IF lowerName[i] = query[queryIndex + 1] THEN queryIndex + 1
                    ELSE queryIndex)

\* SearchProvider.matchesQuery(name, query): exact, prefix, substring or
\* characters in order
matchesQuery(name, query) ==
    LET lowerName == toLowerCase(Chars(name)) IN
    \/ lowerName = query
    \/ /\ Len(query) <= Len(lowerName)
       /\ SubSeq(lowerName, 1, Len(query)) = query
    \/ \E i \in 1..(Len(lowerName) - Len(query) + 1) :
            SubSeq(lowerName, i, i + Len(query) - 1) = query
    \/ FuzzyIndex(lowerName, query, 1, 0) = Len(query)

\* SearchFilters: each member is Undefined when it is not given
SearchFilters(kind, namespace, hasDescription) ==
    [kind |-> kind, namespace |-> namespace, hasDescription |-> hasDescription]

\* the array of kinds of a filter
Kinds(S) == [kinds |-> S]

\* a boolean member that is given
Given(b) == [value |-> b]

\* !filters?.kind || filters.kind.includes(kind)
KindIncluded(filters, kind) ==
    \/ filters = Undefined
    \/ filters.kind = Undefined
    \/ kind \in filters.kind.kinds

\* SearchProvider.matchesFilters(element, namespace, filters); the namespace
\* filter is the sequence of its components, empty when it is not given
matchesFilters(element, namespace, filters) ==
    IF filters = Undefined THEN TRUE
    ELSE IF filters.namespace # <<>> /\ namespace # filters.namespace THEN FALSE
    ELSE IF /\ filters.hasDescription # Undefined
            /\ filters.hasDescription.value # (element.description # "")
    THEN FALSE
    ELSE TRUE

\* a SearchResult; a namespace, a description or a parent that is undefined is
\* the empty one, as everywhere in the AST
SearchResult(name, kind, namespace, description, filePath, line, parent) ==
    [name |-> name, kind |-> kind, namespace |-> namespace, description |-> description,
     filePath |-> filePath, line |-> line, parent |-> parent]

\* the loop over type.fields
RECURSIVE SearchFields(_, _, _, _)
SearchFields(fields, type, file, query) ==
    IF fields = <<>> THEN <<>>
    ELSE (IF matchesQuery(Head(fields).name, query)
          THEN <<SearchResult(Head(fields).name, "field", NamespaceName(file),
                              "", file.filePath, 0, type.name)>>
          ELSE <<>>)
         \o SearchFields(Tail(fields), type, file, query)

\* the loop over file.types: the Type itself, then its fields when the kind
\* filter includes 'field'
RECURSIVE SearchTypes(_, _, _, _)
SearchTypes(types, file, query, filters) ==
    IF types = <<>> THEN <<>>
    ELSE LET type == Head(types) IN
         (IF /\ matchesQuery(type.name, query)
             /\ matchesFilters(type, NamespaceName(file), filters)
          THEN <<SearchResult(type.name, "type", NamespaceName(file),
                              type.description, file.filePath, type.location.line, "")>>
          ELSE <<>>)
         \o (IF KindIncluded(filters, "field")
             THEN SearchFields(type.fields, type, file, query)
             ELSE <<>>)
         \o SearchTypes(Tail(types), file, query, filters)

\* the loop over file.enums
RECURSIVE SearchEnums(_, _, _, _)
SearchEnums(enums, file, query, filters) ==
    IF enums = <<>> THEN <<>>
    ELSE LET enumDef == Head(enums) IN
         (IF /\ matchesQuery(enumDef.name, query)
             /\ matchesFilters(enumDef, NamespaceName(file), filters)
          THEN <<SearchResult(enumDef.name, "enum", NamespaceName(file),
                              enumDef.description, file.filePath, enumDef.location.line,
                              "")>>
          ELSE <<>>)
         \o SearchEnums(Tail(enums), file, query, filters)

\* the loop over the files of the index, `paths` being the order in which the
\* Map of files is iterated: the types (and their fields) are searched only
\* when the kind filter includes 'type'
RECURSIVE SearchFiles(_, _, _, _)
SearchFiles(idx, paths, query, filters) ==
    IF paths = <<>> THEN <<>>
    ELSE LET file == idx.files[Head(paths)] IN
         (IF KindIncluded(filters, "type")
          THEN SearchTypes(file.types, file, query, filters)
          ELSE <<>>)
         \o (IF KindIncluded(filters, "enum")
             THEN SearchEnums(file.enums, file, query, filters)
             ELSE <<>>)
         \o SearchFiles(idx, Tail(paths), query, filters)

\* the position of a letter in the alphabet
Letter(c) == IF c \in DOMAIN Alphabet THEN Alphabet[c] ELSE 0

\* the comparison of two sequences of weights: -1, 0 or 1
RECURSIVE CompareWeights(_, _)
CompareWeights(x, y) ==
    IF x = <<>> /\ y = <<>> THEN 0
    ELSE IF x = <<>> THEN -1
    ELSE IF y = <<>> THEN 1
    ELSE IF Head(x) < Head(y) THEN -1
    ELSE IF Head(x) > Head(y) THEN 1
    ELSE CompareWeights(Tail(x), Tail(y))

\* the default locales of the hosts: localeCompare is called without one
Locales == {"en-US", "da-DK"}

\* lower case sorts before upper case, and upper case first in Danish
CaseWeight(c, locale) ==
    IF c \in DOMAIN LowerOf THEN (IF locale = "da-DK" THEN 0 ELSE 1)
    ELSE (IF locale = "da-DK" THEN 1 ELSE 0)

\* a.localeCompare(b) under the default locale of the host: by letters first,
\* and by case when the letters agree
localeCompare(a, b, locale) ==
    LET letters(chars) == [i \in DOMAIN chars |-> Letter(chars[i])]
        cases(chars) == [i \in DOMAIN chars |-> CaseWeight(chars[i], locale)]
    IN IF CompareWeights(letters(Chars(a)), letters(Chars(b))) # 0
       THEN CompareWeights(letters(Chars(a)), letters(Chars(b)))
       ELSE CompareWeights(cases(Chars(a)), cases(Chars(b)))

\* the comparator of results.sort: exact matches first, then by name
CompareResults(a, b, lowerQuery, locale) ==
    LET aExact == toLowerCase(Chars(a.name)) = lowerQuery
        bExact == toLowerCase(Chars(b.name)) = lowerQuery
    IN IF aExact /\ ~bExact THEN -1
       ELSE IF ~aExact /\ bExact THEN 1
       ELSE localeCompare(a.name, b.name, locale)

\* x put into the sorted results before the first one it sorts before
RECURSIVE SortInsert(_, _, _, _)
SortInsert(sorted, x, lowerQuery, locale) ==
    IF sorted = <<>> THEN <<x>>
    ELSE IF CompareResults(x, Head(sorted), lowerQuery, locale) < 0 THEN <<x>> \o sorted
    ELSE <<Head(sorted)>> \o SortInsert(Tail(sorted), x, lowerQuery, locale)

\* Array.prototype.sort with that comparator (stable)
RECURSIVE SortResults(_, _, _)
SortResults(results, lowerQuery, locale) ==
    IF results = <<>> THEN <<>>
    ELSE SortInsert(SortResults(SubSeq(results, 1, Len(results) - 1), lowerQuery, locale),
                    Last(results), lowerQuery, locale)

\* SearchProvider.search(query, filters) on a host of the given locale
Search(idx, paths, query, filters, locale) ==
    LET lowerQuery == toLowerCase(Chars(query)) IN
    SortResults(SearchFiles(idx, paths, lowerQuery, filters), lowerQuery, locale)

-----------------------------------------------------------------------------
(* Bounds and input families *)

\* longest text handed to the parser on its own
MaxLines == 4
\* most file-watcher events waiting to be delivered
MaxEvents == 2
\* most type and enum blocks in a validated document
MaxBlocks == 2
\* largest maxDepth a graph is asked for
MaxDepth == 2
\* largest min / max written in a cardinality string
MaxNumber == 12

One == <<"1", ".", ".", "1">>
Many == <<"0", ".", ".", "*">>

\* the lines the texts handed to the parser on its own are made of
ParseLines ==
    {TypeLine(0, "A", "", "empty"), TypeLine(0, "B", "A", "text"),
     TypeLine(1, "B", "", "empty"), EnumLine(0, "E", "empty"),
     FieldLine("f", "string", One), JunkLine,
     NamespaceLine(0, <<"cdm", "base">>, "none"), NamespaceLine(0, <<"n1">>, "text")}

ParseTexts == SeqsUpTo(ParseLines, MaxLines)

\* the lines at which a type or enum match starts
MatchLines(text) ==
    {b.line : b \in Range(Blocks(text, "type", 1)) \cup Range(Blocks(text, "enum", 1))}

\* the decimal numeral of n
RECURSIVE Decimal(_)
Decimal(n) ==
    IF n < 10 THEN <<DigitChar[n]>> ELSE Decimal(n \div 10) \o <<DigitChar[n % 10]>>

\* the numerals of n: plain, and with a leading zero
Numerals(n) == {Decimal(n), <<"0">> \o Decimal(n)}

\* the string "a..b", b a numeral or "*"
CardinalityString(a, b) == a \o <<".", ".">> \o b

WellFormedCardinalities ==
    {CardinalityString(a, b) :
        a \in UNION {Numerals(n) : n \in 0..MaxNumber},
        b \in UNION {Numerals(n) : n \in 0..MaxNumber} \cup {<<"*">>}}

\* strings the cardinality pattern does not match
MalformedCardinalities ==
    {<<>>, <<"1">>, <<"*">>, <<"1", ".", "2">>, <<"1", ".", ".">>,
     <<"*", ".", ".", "1">>, <<".", ".", "1">>}

\* the .rosetta files of the workspace folder
Paths == {"a.rosetta", "b.rosetta"}

\* the orders in which readdirSync may list the entries of a folder
WalkOrders ==
    {<<"a.rosetta", "b.rosetta", "notes.txt", "sub", "sub/c.rosetta", "node_modules",
       "node_modules/d.rosetta", ".git", ".git/e.rosetta">>,
     <<".git/e.rosetta", ".git", "node_modules/d.rosetta", "node_modules",
       "sub/c.rosetta", "sub", "notes.txt", "b.rosetta", "a.rosetta">>}

N1 == NamespaceLine(0, <<"n1">>, "text")
N2 == NamespaceLine(0, <<"n2">>, "text")

\* the contents the workspace files are given
IndexTexts ==
    {<<N1, TypeLine(0, "A", "", "text"), FieldLine("f", "string", One), CloseLine>>,
     <<TypeLine(0, "A", "B", "empty"), CloseLine, TypeLine(0, "B", "", "empty")>>,
     <<N2, EnumLine(0, "A", "empty"), ValueLine("X"), CloseLine>>,
     <<N1, TypeLine(0, "B", "", "empty"), CloseLine, EnumLine(0, "E", "text")>>}

\* the names looked up: every bare and every qualified name
Keys ==
    {<<n>> : n \in {"A", "B", "E"}}
    \cup {<<ns, n>> : ns \in {"n1", "n2"}, n \in {"A", "B", "E"}}

Inverted == <<"2", ".", ".", "1">>

\* type Name [extends Ext] : <""> { fields }
TypeBlock(name, ext, fields) == <<TypeLine(0, name, ext, "empty")>> \o fields \o <<CloseLine>>

\* enum Name : <""> { values }
EnumBlock(name, values) == <<EnumLine(0, name, "empty")>> \o values \o <<CloseLine>>

\* the blocks validated documents are made of: types A, B, C with parents
\* (themselves, each other, an enum, a primitive, the undefined Z), a type D
\* with fields of primitive, type, enum and undefined types, and an enum E
ValidateBlocks ==
    {TypeBlock("A", ext, <<>>) : ext \in {"A", "B", "E", "string", "Z"}}
    \cup {TypeBlock("B", ext, <<>>) : ext \in {"", "A", "C"}}
    \cup {TypeBlock("C", "B", <<>>)}
    \cup {TypeBlock("D", "", fields) : fields \in
            {<<>>,
             <<FieldLine("f", "string", One)>>,
             <<FieldLine("f", "B", Many)>>,
             <<FieldLine("f", "E", One)>>,
             <<FieldLine("f", "Z", Inverted)>>,
             <<FieldLine("f", "Z", One), FieldLine("f", "Z", One)>>,
             <<FieldLine("f", "int", One), FieldLine("f", "int", One),
               FieldLine("f", "int", One)>>,
             <<FieldLine("f", "Z", One), FieldLine("g", "B", One), FieldLine("f", "E", One)>>}}
    \cup {EnumBlock("E", <<ValueLine("X")>>)}

RECURSIVE Flatten(_)
Flatten(blocks) == IF blocks = <<>> THEN <<>> ELSE Head(blocks) \o Flatten(Tail(blocks))

ValidateTexts == {Flatten(blocks) : blocks \in SeqsUpTo(ValidateBlocks, MaxBlocks)}

\* the contents of the other file of the workspace
OtherTexts ==
    {<<N1>> \o TypeBlock("B", "A", <<>>) \o EnumBlock("E", <<ValueLine("X")>>),
     TypeBlock("C", "B", <<>>) \o TypeBlock("A", "", <<FieldLine("f", "string", One)>>)}

\* a workspace of the validated document alone, or with the other file
ValidateDisk(d) ==
    \E a \in ValidateTexts :
        \/ d = ("a.rosetta" :> a @@ "b.rosetta" :> Absent)
        \/ \E b \in OtherTexts : d = ("a.rosetta" :> a @@ "b.rosetta" :> b)

\* the workspaces graphs are built from: Employee extends Person and has a
\* Department; an inheritance cycle; a Type with a field of its own type, of
\* an enum type and of an undefined type; a Type C referenced at two depths;
\* the same in a namespace
GraphTexts ==
    {TypeBlock("Employee", "Person",
               <<FieldLine("name", "string", One), FieldLine("department", "Department", One)>>),
     TypeBlock("A", "B", <<>>) \o TypeBlock("B", "A", <<>>),
     TypeBlock("A", "", <<FieldLine("a", "A", Many), FieldLine("e", "E", One),
                          FieldLine("z", "Z", One)>>)
        \o EnumBlock("E", <<ValueLine("X")>>),
     TypeBlock("A", "", <<FieldLine("b", "B", One), FieldLine("c", "C", One)>>)
        \o TypeBlock("B", "", <<FieldLine("c", "C", One)>>),
     <<N1>> \o TypeBlock("A", "B", <<FieldLine("f", "B", One)>>) \o TypeBlock("B", "", <<>>),
     TypeBlock("A", "string", <<FieldLine("f", "int", One), FieldLine("e", "E", One)>>)}

GraphOtherTexts ==
    {TypeBlock("Person", "", <<FieldLine("name", "string", One)>>)
        \o TypeBlock("Department", "", <<>>),
     TypeBlock("C", "A", <<>>) \o EnumBlock("E", <<ValueLine("Y")>>),
     TypeBlock("C", "", <<FieldLine("d", "D", One)>>) \o TypeBlock("D", "", <<>>)}

GraphDisk(d) ==
    \E a \in GraphTexts :
        \/ d = ("a.rosetta" :> a @@ "b.rosetta" :> Absent)
        \/ \E b \in GraphOtherTexts : d = ("a.rosetta" :> a @@ "b.rosetta" :> b)

\* the names graphs are built from
GraphRoots == {<<"Employee">>, <<"A">>, <<"B">>, <<"C">>, <<"E">>, <<"Z">>, <<"n1", "A">>}

\* the contents of the files of a workspace with folders
TreeText(path) ==
    IF path = "a.rosetta"
    THEN <<N1>> \o TypeBlock("A", "", <<FieldLine("f", "string", One)>>)
    ELSE IF path = "b.rosetta"
    THEN TypeBlock("A", "B", <<>>) \o TypeBlock("B", "", <<>>)
    ELSE IF path = "sub/c.rosetta"
    THEN TypeBlock("C", "", <<>>) \o EnumBlock("E", <<ValueLine("X")>>)
    ELSE IF path = "node_modules/d.rosetta"
    THEN TypeBlock("D", "", <<>>) \o EnumBlock("E", <<ValueLine("Y")>>)
    ELSE IF path = ".git/e.rosetta"
    THEN <<N2>> \o EnumBlock("G", <<ValueLine("X")>>)
    ELSE TypeBlock("X", "", <<>>)

\* a workspace folder with a.rosetta and b.rosetta (b possibly unreadable),
\* notes.txt, a folder sub with c.rosetta, node_modules with d.rosetta and
\* .git with e.rosetta; `root` and `sub` are Directory(..) or Absent
Tree(root, a, b, sub) ==
    [q \in {e.path : e \in PathTable} \cup {Root} |->
        IF q = Root THEN root
        ELSE IF q = "a.rosetta" THEN (IF a THEN TreeText(q) ELSE Absent)
        ELSE IF q = "b.rosetta" THEN b
        ELSE IF q = "sub" THEN sub
        ELSE IF q = "sub/c.rosetta" THEN (IF sub = Absent THEN Absent ELSE TreeText(q))
        ELSE IF q \in {"node_modules", ".git"} THEN Directory(TRUE)
        ELSE TreeText(q)]

\* the workspaces the walk is run on, by number
TreeDisk(root, a, sub, k) ==
    IF k = 1 THEN Tree(root, a, TreeText("b.rosetta"), sub)
    ELSE IF k = 2 THEN Tree(root, a, Unreadable, sub)
    ELSE IF k = 3 THEN Tree(root, a, Absent, sub)
    ELSE IF k = 4 THEN Tree(root, a, TreeText("b.rosetta"), Absent)
    ELSE Tree(root, a, Absent, Absent)

\* the workspaces indexed before the file system changed, by number
EarlierTreeDisk(k) ==
    IF k = 1 THEN Tree(Directory(TRUE), TRUE, TreeText("b.rosetta"), Directory(TRUE))
    ELSE IF k = 2 THEN Tree(Directory(TRUE), TRUE, Absent, Directory(TRUE))
    ELSE Tree(Directory(TRUE), TRUE, TreeText("b.rosetta"), Absent)

-----------------------------------------------------------------------------
(* Idle values of the variables a specification does not use *)

IdleIndex ==
    /\ disk = EmptyMap
    /\ workspaceFolders = Undefined
    /\ events = <<>>
    /\ files = EmptyMap
    /\ typeIndex = EmptyMap
    /\ enumIndex = EmptyMap

IdleParse == content = <<>> /\ fault = NoFault /\ result = None

IdleCard == cardinalityStr = <<>> /\ cardinality = None

IdleValidate == document = None /\ diagnostics = <<>>

IdleGraph == graph = None

IdleEditor == textDocument = None /\ documentEvents = <<>>

IdleSearch == search = None

IdleLoop == running = <<>> /\ observed = None

-----------------------------------------------------------------------------
(* SpecParse: RosettaParser.parse on a text *)

InitParse ==
    /\ content \in ParseTexts
    /\ fault \in {NoFault, OuterFault} \cup {ElementFault(l) : l \in MatchLines(content)}
    /\ result = None
    /\ IdleIndex /\ IdleCard /\ IdleValidate /\ IdleGraph /\ IdleEditor /\ IdleSearch /\ IdleLoop

Parse ==
    /\ result = None
    /\ result' = parse(content, "", fault)
    /\ UNCHANGED <<content, fault, indexVars, cardVars, validateVars, graph, editorVars, search, loopVars>>

NextParse == Parse

SpecParse == InitParse /\ [][NextParse]_vars

-----------------------------------------------------------------------------
(* SpecImport: RosettaParser.parse on texts with import lines *)

\* import lines with the `*` last, in the middle and absent, one of them
\* indented, among other lines
ImportLines ==
    {ImportLine(0, <<"cdm", "base", "Party">>), ImportLine(0, <<"cdm", "base", "*">>),
     ImportLine(0, <<"cdm", "*", "Party">>), ImportLine(1, <<"cdm", "event", "*">>),
     N1, TypeLine(0, "A", "", "empty")}

ImportTexts == SeqsUpTo(ImportLines, MaxLines)

InitImport ==
    /\ content \in ImportTexts
    /\ fault = NoFault
    /\ result = None
    /\ IdleIndex /\ IdleCard /\ IdleValidate /\ IdleGraph /\ IdleEditor /\ IdleSearch /\ IdleLoop

SpecImport == InitImport /\ [][NextParse]_vars

\* the import lines of the text that the parser recognises, in source order
RECURSIVE RecognisedImports(_)
RecognisedImports(text) ==
    IF text = <<>> THEN <<>>
    ELSE (IF Head(text).k = "import" /\ Head(text).ind = 0 THEN <<Head(text)>> ELSE <<>>)
         \o RecognisedImports(Tail(text))

\* C22: parse returns one Import per import line, in source order, and the
\* Import's isWildcard flag is true exactly when its path ends in `*`
C22_WildcardIffEndsInStar ==
    result # None =>
        LET lines == RecognisedImports(content)
            imports == result.file.imports
        IN /\ Len(imports) = Len(lines)
           /\ \A i \in DOMAIN imports :
                /\ imports[i].path = lines[i].ns
                /\ imports[i].isWildcard = (Last(imports[i].path) = "*")

-----------------------------------------------------------------------------
(* SpecCard: RosettaParser.parseCardinality on a string *)

InitCard ==
    /\ cardinalityStr \in WellFormedCardinalities \cup MalformedCardinalities
    /\ cardinality = None
    /\ IdleIndex /\ IdleParse /\ IdleValidate /\ IdleGraph /\ IdleEditor /\ IdleSearch /\ IdleLoop

ParseCardinality ==
    /\ cardinality = None
    /\ cardinality' = parseCardinality(cardinalityStr)
    /\ UNCHANGED <<cardinalityStr, indexVars, parseVars, validateVars, graph, editorVars, search, loopVars>>

NextCard == ParseCardinality

SpecCard == InitCard /\ [][NextCard]_vars

-----------------------------------------------------------------------------
(* Claims about the parser *)

ExpectedCardinality(a, max) ==
    [min |-> a, max |-> max, isRequired |-> a > 0,
     isMultiple |-> max.unbounded \/ max.n > 1]

\* C8: for every string "a..b" (b a numeral or "*") parseCardinality returns
\* min = a, max = b or unbounded, isRequired = (a > 0) and isMultiple =
\* (b = "*" or b > 1); 0..1, 1..1, 0..* and 1..* give the documented values,
\* and the derived booleans of every result are those recomputed from min/max
C8_CardinalityParsed ==
    cardinality # None =>
        /\ \A a \in 0..MaxNumber : \A sa \in Numerals(a) :
            /\ cardinalityStr = CardinalityString(sa, <<"*">>)
                  => cardinality = ExpectedCardinality(a, Unbounded)
            /\ \A b \in 0..MaxNumber : \A sb \in Numerals(b) :
                  cardinalityStr = CardinalityString(sa, sb)
                      => cardinality = ExpectedCardinality(a, Bounded(b))
        /\ cardinalityStr = <<"0", ".", ".", "1">>
              => cardinality = NewCardinality(0, Bounded(1), FALSE, FALSE)
        /\ cardinalityStr = <<"1", ".", ".", "1">>
              => cardinality = NewCardinality(1, Bounded(1), TRUE, FALSE)
        /\ cardinalityStr = <<"0", ".", ".", "*">>
              => cardinality = NewCardinality(0, Unbounded, FALSE, TRUE)
        /\ cardinalityStr = <<"1", ".", ".", "*">>
              => cardinality = NewCardinality(1, Unbounded, TRUE, TRUE)
        /\ cardinality.isRequired = (cardinality.min > 0)
        /\ cardinality.isMultiple = (cardinality.max.unbounded \/ cardinality.max.n > 1)

\* "10..1" has been parsed: min 10, max 1, required, not multiple
C8_Witness ==
    /\ cardinalityStr = <<"1", "0", ".", ".", "1">>
    /\ cardinality = NewCardinality(10, Bounded(1), TRUE, FALSE)

RECURSIVE Without(_, _)
\* the elements of s located at a line other than `line`, in order
Without(s, line) ==
    IF s = <<>> THEN <<>>
    ELSE (IF Head(s).location.line = line THEN <<>> ELSE <<Head(s)>>)
         \o Without(Tail(s), line)

\* C9: parse returns a File and an error list for every text and never raises;
\* a text with no declaration gives an empty File and no error; when the
\* extraction of one type or enum match raises, one ParseError of severity
\* 'error' is recorded at that element and every other block is returned as it
\* is without the failure
C9_ParseNeverRaises ==
    result # None =>
        /\ DOMAIN result = {"file", "errors"}
        /\ DOMAIN result.file = {"filePath", "namespace", "imports", "types", "enums"}
        /\ \A i \in DOMAIN result.errors : result.errors[i].severity = "error"
        /\ (fault = NoFault /\ \A i \in DOMAIN content : content[i].k \notin {"namespace", "import", "type", "enum"})
              => result = [file |-> RosettaFile("", Undefined, <<>>, <<>>, <<>>), errors |-> <<>>]
        /\ fault = OuterFault =>
            /\ result.file = RosettaFile("", Undefined, <<>>, <<>>, <<>>)
            /\ Len(result.errors) = 1
        /\ fault.at = "element" =>
            /\ Len(result.errors) = 1
            /\ result.errors[1].location.line = fault.line
            /\ result.errors[1].name = content[fault.line].name
            /\ result.file.types
                  = Without(parse(content, "", NoFault).file.types, fault.line)
            /\ result.file.enums
                  = Without(parse(content, "", NoFault).file.enums, fault.line)

\* the first of two type blocks raised; the second one is returned
C9_Witness ==
    /\ result # None
    /\ fault = ElementFault(1)
    /\ Len(result.errors) = 1
    /\ Len(result.file.types) = 1
    /\ result.file.types[1].location.line > 1

\* the names of the field lines from line i up to the next type, enum or func
\* declaration, whatever its indentation
RECURSIVE OwnFieldNames(_, _)
OwnFieldNames(text, i) ==
    IF i > Len(text) \/ text[i].k \in {"type", "enum", "func"} THEN <<>>
    ELSE (IF text[i].k = "field" THEN <<text[i].name>> ELSE <<>>)
         \o OwnFieldNames(text, i + 1)

\* one entry per `type` declaration from line i on, in source order
RECURSIVE DeclaredTypes(_, _)
DeclaredTypes(text, i) ==
    IF i > Len(text) THEN <<>>
    ELSE (IF text[i].k = "type" /\ text[i].desc # "none"
          THEN <<[name |-> text[i].name, fields |-> OwnFieldNames(text, i + 1)]>>
          ELSE <<>>)
         \o DeclaredTypes(text, i + 1)

\* C10: parse returns exactly one Type per `type` declaration, in source
\* order, each with the field lines of its own block only: the body of a block
\* ends at the next type/enum/func declaration, whatever whitespace precedes it
C10_OneTypePerDeclaration ==
    (result # None /\ fault = NoFault) =>
        [i \in DOMAIN result.file.types |->
            [name |-> result.file.types[i].name,
             fields |-> [j \in DOMAIN result.file.types[i].fields |->
                            result.file.types[i].fields[j].name]]]
        = DeclaredTypes(content, 1)

\* the lines that declare a namespace, starting in column 0
NamespaceLines(text) ==
    {i \in DOMAIN text : text[i].k = "namespace" /\ text[i].ind = 0}

\* C11: a namespace declaration is recognised with or without a description:
\* the File of a text with a namespace line has a namespace named as the first
\* such line says, a bare `namespace cdm.base` included, and the File of a
\* text with no namespace line has an undefined namespace and no ParseError
C11_NamespaceRecognised ==
    (result # None /\ fault = NoFault) =>
        IF NamespaceLines(content) = {}
        THEN result.file.namespace = Undefined /\ result.errors = <<>>
        ELSE LET first == CHOOSE i \in NamespaceLines(content) :
                              \A j \in NamespaceLines(content) : i <= j
             IN /\ result.file.namespace # Undefined
                /\ result.file.namespace.name = content[first].ns

\* C23: in every File parse returns, no two Types have the same name, also
\* for a text that declares the same type name twice
C23_TypeNamesUnique ==
    result # None =>
        \A i, j \in DOMAIN result.file.types :
            result.file.types[i].name = result.file.types[j].name => i = j

-----------------------------------------------------------------------------
(* Spec: the workspace, the file watcher and the symbol index *)

Event(kind, path) == [kind |-> kind, path |-> path]

\* activate(): new SymbolIndexer(); symbolIndexer.indexWorkspace() on an empty
\* workspace folder
Init ==
    /\ disk = [p \in Paths |-> Absent]
    /\ workspaceFolders = WorkspaceFolders(<<Root>>)
    /\ events = <<>>
    /\ files = EmptyMap
    /\ typeIndex = EmptyMap
    /\ enumIndex = EmptyMap
    /\ IdleParse /\ IdleCard /\ IdleValidate /\ IdleGraph /\ IdleEditor /\ IdleSearch /\ IdleLoop

SetIndex(idx) ==
    /\ files' = idx.files
    /\ typeIndex' = idx.typeIndex
    /\ enumIndex' = idx.enumIndex

\* a .rosetta file is created or rewritten; the watcher queues the event
WriteFile ==
    \E p \in Paths, text \in IndexTexts :
        /\ Len(events) < MaxEvents
        /\ disk' = [disk EXCEPT ![p] = text]
        /\ events' = Append(events,
                        Event(IF disk[p] = Absent THEN "create" ELSE "change", p))
        /\ UNCHANGED <<workspaceFolders, files, typeIndex, enumIndex>>
        /\ UNCHANGED <<parseVars, cardVars, validateVars, graph, editorVars, search, loopVars>>

\* a .rosetta file is removed; the watcher queues the event
DeleteFile ==
    \E p \in Paths :
        /\ Len(events) < MaxEvents
        /\ disk[p] # Absent
        /\ disk' = [disk EXCEPT ![p] = Absent]
        /\ events' = Append(events, Event("delete", p))
        /\ UNCHANGED <<workspaceFolders, files, typeIndex, enumIndex>>
        /\ UNCHANGED <<parseVars, cardVars, validateVars, graph, editorVars, search, loopVars>>

\* fileWatcher.onDidCreate
OnDidCreate ==
    /\ events # <<>>
    /\ Head(events).kind = "create"
    /\ SetIndex(indexFile(indexer, disk, Head(events).path))
    /\ events' = Tail(events)
    /\ UNCHANGED <<disk, workspaceFolders, parseVars, cardVars, validateVars, graph, editorVars, search, loopVars>>

\* fileWatcher.onDidChange
OnDidChange ==
    /\ events # <<>>
    /\ Head(events).kind = "change"
    /\ SetIndex(indexFile(indexer, disk, Head(events).path))
    /\ events' = Tail(events)
    /\ UNCHANGED <<disk, workspaceFolders, parseVars, cardVars, validateVars, graph, editorVars, search, loopVars>>

\* fileWatcher.onDidDelete
OnDidDelete ==
    /\ events # <<>>
    /\ Head(events).kind = "delete"
    /\ \E order \in WalkOrders : SetIndex(indexWorkspace(indexer, disk, workspaceFolders, order))
    /\ events' = Tail(events)
    /\ UNCHANGED <<disk, workspaceFolders, parseVars, cardVars, validateVars, graph, editorVars, search, loopVars>>

\* command cdm.refreshExplorer
RefreshExplorer ==
    /\ \E order \in WalkOrders : SetIndex(indexWorkspace(indexer, disk, workspaceFolders, order))
    /\ UNCHANGED <<disk, workspaceFolders, events, parseVars, cardVars, validateVars, graph, editorVars, search, loopVars>>

Next ==
    \/ WriteFile
    \/ DeleteFile
    \/ OnDidCreate
    \/ OnDidChange
    \/ OnDidDelete
    \/ RefreshExplorer

Spec == Init /\ [][Next]_vars

-----------------------------------------------------------------------------
(* SpecWalk: the watcher and the refresh command on a workspace with folders,
   unreadable files and unreadable directories *)

\* the watcher events waiting when the walk is observed
TreeEvents ==
    {Event("create", "a.rosetta"), Event("change", "b.rosetta"),
     Event("delete", "a.rosetta"), Event("delete", "sub/c.rosetta"),
     Event("create", "node_modules/d.rosetta"), Event("change", ".git/e.rosetta")}

\* the index holds an earlier indexWorkspace() of the open folder; the file
\* system has changed since and one watcher event is waiting
InitWalk ==
    /\ \E root, sub \in {Directory(TRUE), Directory(FALSE)}, a \in BOOLEAN, k \in 1..5 :
        disk = TreeDisk(root, a, sub, k)
    /\ \/ workspaceFolders = Undefined
       \/ workspaceFolders = WorkspaceFolders(<<Root>>)
    /\ \E e \in TreeEvents : events = <<e>>
    /\ \E order \in WalkOrders, k \in 1..3 :
        LET idx == indexWorkspace(EmptyIndex, EarlierTreeDisk(k),
                                  WorkspaceFolders(<<Root>>), order)
        IN /\ files = idx.files
           /\ typeIndex = idx.typeIndex
           /\ enumIndex = idx.enumIndex
    /\ IdleParse /\ IdleCard /\ IdleValidate /\ IdleGraph /\ IdleEditor /\ IdleSearch /\ IdleLoop

NextWalk ==
    \/ OnDidCreate
    \/ OnDidChange
    \/ OnDidDelete
    \/ RefreshExplorer

SpecWalk == InitWalk /\ [][NextWalk]_vars

-----------------------------------------------------------------------------
(* Claims about the symbol index *)

\* what the index answers for every name
Answers(idx) ==
    [k \in Keys |-> <<getType(idx, k), getEnum(idx, k), getSymbol(idx, k)>>]

\* C1: once every create/change event has been handled by indexFile, the
\* index answers getType, getEnum and getSymbol for every bare or qualified
\* name as a fresh indexWorkspace over the current file contents would (in
\* whichever order the file system lists the files)
C1_IncrementalEqualsRebuilt ==
    events = <<>> =>
        \E order \in WalkOrders : Answers(indexer) = Answers(indexWorkspace(EmptyIndex, disk, workspaceFolders, order))

\* the names a text declares with the given keyword
DeclaredNames(text, keyword) ==
    {text[i].name : i \in {j \in DOMAIN text : text[j].k = keyword}}

DefinedNames(defs) == {defs[i].name : i \in DOMAIN defs}

\* the watcher delivers a create or change event for a file that can be read
IndexFileStep ==
    /\ events # <<>>
    /\ Head(events).kind \in {"create", "change"}
    /\ events' = Tail(events)
    /\ CanRead(disk, Head(events).path)

\* C2: indexFile(p) leaves as the File entry of p exactly the parse result of
\* the current text of p, so a Type or Enum the text no longer declares is not
\* in the entry, and the entries of all other paths are unchanged
C2_IndexFileReplaces ==
    [][IndexFileStep =>
        LET p == Head(events).path IN
        /\ DOMAIN files' = DOMAIN files \cup {p}
        /\ files'[p] = parse(disk[p], p, NoFault).file
        /\ DefinedNames(files'[p].types) \subseteq DeclaredNames(disk[p], "type")
        /\ DefinedNames(files'[p].enums) \subseteq DeclaredNames(disk[p], "enum")
        /\ \A q \in DOMAIN files \ {p} : files'[q] = files[q]
    ]_vars

\* a file was re-indexed after an edit that removed a Type: the type table
\* still names the file for it, and the File entry no longer defines it
C2_Witness ==
    /\ events = <<>>
    /\ \E k \in DOMAIN typeIndex :
        /\ typeIndex[k].filePath \in DOMAIN files
        /\ Last(k) \notin DefinedNames(files[typeIndex[k].filePath].types)
        /\ \E q \in DOMAIN files : q # typeIndex[k].filePath

\* the index after the step
indexerAfter == Index(files', typeIndex', enumIndex')

\* C15 as stated: in every state, for every Type or Enum D defined in an
\* indexed file with namespace ns, the lookup by the bare name D.name and the
\* lookup by the qualified name ns.D.name both resolve to D
C15_EveryDefinitionResolves ==
    \A p \in DOMAIN files :
        LET ns == NamespaceName(files[p]) IN
        /\ \A i \in DOMAIN files[p].types :
             LET D == files[p].types[i] IN
             /\ getType(indexer, <<D.name>>) = D
             /\ getType(indexer, QualifiedName(ns, D.name)) = D
        /\ \A i \in DOMAIN files[p].enums :
             LET D == files[p].enums[i] IN
             /\ getEnum(indexer, <<D.name>>) = D
             /\ getEnum(indexer, QualifiedName(ns, D.name)) = D

\* C15, amended: right after indexFile(p) on a readable file with namespace
\* ns, for every name a Type (an Enum) of p's File has, getType (getEnum) by
\* the bare name and by the qualified name resolve to the same definition,
\* the first Type (Enum) of that name in p's File
C15_BareAndQualifiedAgree ==
    [][IndexFileStep =>
        LET p == Head(events).path
            file == files'[p]
            ns == NamespaceName(file)
        IN /\ \A i \in DOMAIN file.types :
                LET name == file.types[i].name IN
                /\ getType(indexerAfter, <<name>>) = Find(file.types, name)
                /\ getType(indexerAfter, QualifiedName(ns, name)) = Find(file.types, name)
           /\ \A i \in DOMAIN file.enums :
                LET name == file.enums[i].name IN
                /\ getEnum(indexerAfter, <<name>>) = Find(file.enums, name)
                /\ getEnum(indexerAfter, QualifiedName(ns, name)) = Find(file.enums, name)
    ]_vars

\* both files are indexed and define a Type A, one of them in namespace n1:
\* n1.A resolves to the Type of the namespaced file and the bare A to the Type
\* of the other one
C15_Witness ==
    /\ events = <<>>
    /\ DOMAIN files = Paths
    /\ getType(indexer, <<"n1", "A">>) # Undefined
    /\ getType(indexer, <<"A">>) # Undefined
    /\ getType(indexer, <<"A">>) # getType(indexer, <<"n1", "A">>)
    /\ typeIndex[<<"A">>].filePath # typeIndex[<<"n1", "A">>].filePath

\* the file the table names as the owner of the bare name, if any
OwnerOf(table, name) == MapGet(table, <<name>>)

\* the bare names the table may hold
BareNames == {k[1] : k \in {key \in Keys : Len(key) = 1}}

\* C16: every indexFile(p) makes p the owning file of the bare-name entry of
\* each Type (and Enum) name p's File defines, overwriting an entry another
\* file had registered, and leaves the bare-name entries of all other names as
\* they were: after any sequence of indexFile calls, the entry of T names the
\* file most recently indexed while defining T
C16_LastIndexedOwns ==
    [][IndexFileStep =>
        LET p == Head(events).path IN
        \A name \in BareNames :
            /\ IF name \in DefinedNames(files'[p].types)
               THEN OwnerOf(typeIndex', name).filePath = p
               ELSE OwnerOf(typeIndex', name) = OwnerOf(typeIndex, name)
            /\ IF name \in DefinedNames(files'[p].enums)
               THEN OwnerOf(enumIndex', name).filePath = p
               ELSE OwnerOf(enumIndex', name) = OwnerOf(enumIndex, name)
    ]_vars

\* both files are indexed, a.rosetta as it is on disk, and both define a Type
\* B: the entry of B names b.rosetta
C16_Witness ==
    /\ events = <<>>
    /\ DOMAIN files = Paths
    /\ "B" \in DefinedNames(files["a.rosetta"].types)
    /\ "B" \in DefinedNames(files["b.rosetta"].types)
    /\ files["a.rosetta"] = parse(disk["a.rosetta"], "a.rosetta", NoFault).file
    /\ NamespaceName(files["a.rosetta"]) # NamespaceName(files["b.rosetta"])
    /\ OwnerOf(typeIndex, "B").filePath = "b.rosetta"

\* the table maps the name to a file that is not in the File table, or whose
\* File defines nothing of that simple name among `kind`
IsStale(table, name, kind) ==
    \/ table[name].filePath \notin DOMAIN files
    \/ Last(name) \notin DefinedNames(files[table[name].filePath][kind])

\* C17: when the symbol table maps a name to a file whose File entry defines
\* no Type (Enum) of that simple name any more, or whose path is not in the
\* File table, getType (getEnum) returns undefined
C17_StaleResolvesToUndefined ==
    /\ \A name \in DOMAIN typeIndex :
         IsStale(typeIndex, name, "types") => getType(indexer, name) = Undefined
    /\ \A name \in DOMAIN enumIndex :
         IsStale(enumIndex, name, "enums") => getEnum(indexer, name) = Undefined

\* a.rosetta was re-indexed after an edit that removed its Type A: the table
\* still maps A to a.rosetta and getType gives undefined for it
C17_Witness ==
    /\ <<"A">> \in DOMAIN typeIndex
    /\ typeIndex[<<"A">>].filePath = "a.rosetta"
    /\ "a.rosetta" \in DOMAIN files
    /\ "A" \notin DefinedNames(files["a.rosetta"].types)
    /\ getType(indexer, <<"A">>) = Undefined

\* C25: if some File of the File table defines a Type named T, getType(T)
\* returns a Type named T, also after the file that last registered T was
\* edited so that it no longer defines T while another indexed file still does
C25_DefinedTypeResolves ==
    \A p \in DOMAIN files :
        \A i \in DOMAIN files[p].types :
            LET T == files[p].types[i].name IN
            /\ getType(indexer, <<T>>) # Undefined
            /\ getType(indexer, <<T>>).name = T

\* C29: getSymbol(name) returns a SymbolInfo only if the File now stored for
\* its filePath defines a Type or Enum of that simple name and of the
\* SymbolInfo's kind
C29_SymbolIsDefined ==
    \A name \in Keys :
        LET symbol == getSymbol(indexer, name) IN
        symbol # Undefined =>
            /\ symbol.filePath \in DOMAIN files
            /\ Last(name) \in DefinedNames(IF symbol.kind = "Type"
                                           THEN files[symbol.filePath].types
                                           ELSE files[symbol.filePath].enums)

-----------------------------------------------------------------------------
(* Claims about the walk of the workspace *)

\* the folder is reached by the walk from the root: it and every folder above
\* it can be listed and none of them is node_modules or hidden
RECURSIVE Walked(_, _)
Walked(d, folderPath) ==
    IF folderPath = Root THEN d[Root] = Directory(TRUE)
    ELSE /\ d[folderPath] = Directory(TRUE)
         /\ BaseName(folderPath) # "node_modules"
         /\ ~StartsWithDot(BaseName(folderPath))
         /\ Walked(d, DirName(folderPath))

\* the .rosetta files the walk of the open folder finds and can read
Found(d, folders) ==
    IF folders = Undefined THEN {}
    ELSE {q \in DOMAIN d \ {Root} :
            /\ IsFile(d, q)
            /\ EndsWithRosetta(BaseName(q))
            /\ CanRead(d, q)
            /\ Walked(d, DirName(q))}

\* the step is a run of indexWorkspace: by the delete handler, or by the
\* refresh command when it changes a table
IndexWorkspaceStep ==
    \/ /\ events # <<>>
       /\ Head(events).kind = "delete"
       /\ events' = Tail(events)
    \/ /\ events' = events
       /\ <<files', typeIndex', enumIndex'>> # <<files, typeIndex, enumIndex>>

\* every entry of the table is registered by a file of the File table that
\* defines the entry's simple name, under the bare or the qualified name
DerivedFrom(table, fileTable, kind) ==
    \A key \in DOMAIN table :
        LET filePath == table[key].filePath IN
        /\ filePath \in DOMAIN fileTable
        /\ Last(key) \in DefinedNames(IF kind = "Type" THEN fileTable[filePath].types
                                      ELSE fileTable[filePath].enums)
        /\ key \in {<<Last(key)>>,
                    QualifiedName(NamespaceName(fileTable[filePath]), Last(key))}

\* C18: whatever the tables held before, after indexWorkspace the File table
\* holds exactly the parse results of the .rosetta files the current walk
\* finds (none for a deleted file, for a file under node_modules or a hidden
\* folder), every entry of the two symbol tables comes from a definition of
\* one of those Files, and with no workspace folder all three tables are empty
C18_IndexWorkspaceRebuilds ==
    [][IndexWorkspaceStep =>
        /\ DOMAIN files' = Found(disk, workspaceFolders)
        /\ \A q \in DOMAIN files' : files'[q] = parseFile(disk, q).file
        /\ DerivedFrom(typeIndex', files', "Type")
        /\ DerivedFrom(enumIndex', files', "Enum")
        /\ workspaceFolders = Undefined =>
            /\ files' = EmptyMap
            /\ typeIndex' = EmptyMap
            /\ enumIndex' = EmptyMap]_vars

\* a.rosetta, which the earlier index held, was deleted and the delete
\* handler has run: a.rosetta and its qualified name n1.A are gone, A now
\* belongs to b.rosetta, and sub/c.rosetta is still indexed
C18_Witness ==
    /\ events = <<>>
    /\ disk["a.rosetta"] = Absent
    /\ "a.rosetta" \notin DOMAIN files
    /\ <<"n1", "A">> \notin DOMAIN typeIndex
    /\ <<"A">> \in DOMAIN typeIndex
    /\ typeIndex[<<"A">>].filePath = "b.rosetta"
    /\ "sub/c.rosetta" \in DOMAIN files
    /\ "node_modules/d.rosetta" \notin DOMAIN files

\* the path lies under a node_modules folder or a hidden folder
RECURSIVE Excluded(_)
Excluded(fullPath) ==
    LET folderPath == DirName(fullPath) IN
    IF folderPath = Root THEN FALSE
    ELSE \/ BaseName(folderPath) = "node_modules"
         \/ StartsWithDot(BaseName(folderPath))
         \/ Excluded(folderPath)

\* C30: after any sequence of refresh commands and watcher events, the File
\* table holds no path under a node_modules folder or a hidden folder
C30_NoExcludedPathIndexed ==
    \A q \in DOMAIN files : ~Excluded(q)

\* the watcher delivers a create or change event for a file that cannot be read
IndexFileFailsStep ==
    /\ events # <<>>
    /\ Head(events).kind \in {"create", "change"}
    /\ events' = Tail(events)
    /\ ~CanRead(disk, Head(events).path)

\* C19: indexFile(p) of a missing or unreadable p leaves the three tables as
\* they were; an indexWorkspace that meets a folder it cannot list (or a file
\* it cannot read) skips it and still indexes every readable .rosetta file of
\* the folders it can list
C19_FailuresAreIsolated ==
    [][/\ IndexFileFailsStep => UNCHANGED <<files, typeIndex, enumIndex>>
       /\ (IndexWorkspaceStep /\ workspaceFolders # Undefined
               /\ disk[Root] = Directory(TRUE)) =>
            /\ \A q \in {"a.rosetta", "b.rosetta"} :
                CanRead(disk, q) =>
                    /\ q \in DOMAIN files'
                    /\ files'[q] = parseFile(disk, q).file
            /\ ~CanRead(disk, "b.rosetta") => "b.rosetta" \notin DOMAIN files'
            /\ disk["sub"] = Directory(FALSE) => "sub/c.rosetta" \notin DOMAIN files'
            /\ disk["sub"] = Directory(TRUE) => "sub/c.rosetta" \in DOMAIN files']_vars

\* the folder sub and the file b.rosetta, both in the earlier index, can no
\* longer be read; the walk has run and holds a.rosetta alone
C19_Witness ==
    /\ events = <<>>
    /\ disk["sub"] = Directory(FALSE)
    /\ disk["b.rosetta"] = Unreadable
    /\ DOMAIN files = {"a.rosetta"}
    /\ <<"n1", "A">> \in DOMAIN typeIndex
    /\ <<"B">> \notin DOMAIN typeIndex

-----------------------------------------------------------------------------
(* SpecValidate: validateDocument on the documents of an indexed workspace *)

InitValidate ==
    /\ ValidateDisk(disk)
    /\ workspaceFolders = WorkspaceFolders(<<Root>>)
    /\ events = <<>>
    /\ \E order \in WalkOrders :
        /\ files = indexWorkspace(EmptyIndex, disk, workspaceFolders, order).files
        /\ typeIndex = indexWorkspace(EmptyIndex, disk, workspaceFolders, order).typeIndex
        /\ enumIndex = indexWorkspace(EmptyIndex, disk, workspaceFolders, order).enumIndex
    /\ document = None
    /\ diagnostics = <<>>
    /\ IdleParse /\ IdleCard /\ IdleGraph /\ IdleEditor /\ IdleSearch /\ IdleLoop

\* document.languageId: the language mode the editor gives the document
LanguageIds == {"rosetta", "plaintext"}

\* a caller invokes validateDocument(document) on a document of the workspace
\* whose text is the saved one; a document that is not a rosetta one is left
\* alone, and the collection with it
ValidateDocument ==
    \E p \in Existing(disk), languageId \in LanguageIds :
        /\ IF languageId # "rosetta" THEN UNCHANGED <<document, diagnostics>>
           ELSE /\ document' = [path |-> p, text |-> disk[p]]
                /\ diagnostics' = validateDocument(indexer, disk[p], p)
        /\ UNCHANGED <<indexVars, parseVars, cardVars, graph, editorVars, search, loopVars>>

\* DiagnosticProvider.clear(): the collection holds no diagnostics of any
\* document
Clear ==
    /\ document' = None
    /\ diagnostics' = <<>>
    /\ UNCHANGED <<indexVars, parseVars, cardVars, graph, editorVars, search, loopVars>>

\* DiagnosticProvider.dispose(): diagnosticCollection.dispose() empties the
\* collection
Dispose ==
    /\ document' = None
    /\ diagnostics' = <<>>
    /\ UNCHANGED <<indexVars, parseVars, cardVars, graph, editorVars, search, loopVars>>

NextValidate == ValidateDocument \/ Clear \/ Dispose

SpecValidate == InitValidate /\ [][NextValidate]_vars

-----------------------------------------------------------------------------
(* Claims about the validator *)

\* the Types of the validated document
DocumentTypes == parse(document.text, document.path, NoFault).file.types

\* how many elements of s are in S
RECURSIVE Count(_, _)
Count(s, S) ==
    IF s = <<>> THEN 0
    ELSE (IF Head(s) \in S THEN 1 ELSE 0) + Count(Tail(s), S)

Messages == [i \in DOMAIN diagnostics |-> diagnostics[i].message]

\* the name the index links `name` to: the parent of the Type it resolves to
ParentInIndex(name) ==
    IF getType(indexer, <<name>>) = Undefined THEN ""
    ELSE getType(indexer, <<name>>).extends

\* the names met following extends links from `name`, at most n links
RECURSIVE ExtendsChain(_, _)
ExtendsChain(name, n) ==
    IF n = 0 \/ ParentInIndex(name) = "" THEN <<name>>
    ELSE <<name>> \o ExtendsChain(ParentInIndex(name), n - 1)

\* following the links from `name` reaches a name already met on the chain
ChainRevisits(name) ==
    LET chain == ExtendsChain(name, Cardinality(DOMAIN typeIndex) + 1) IN
    \E i, j \in DOMAIN chain : i < j /\ chain[i] = chain[j]

\* the Types of the document are the ones registered in the index
DocumentRegistered ==
    \A i \in DOMAIN DocumentTypes :
        getType(indexer, <<DocumentTypes[i].name>>) = DocumentTypes[i]

CircularMessage(name) == <<"Type '", name, "' has circular inheritance">>

\* C3: for a document whose Types are the ones registered in the index, a Type
\* T with a parent gets a circular-inheritance diagnostic exactly when
\* following extends links from T through the index revisits a name; at most
\* one per Type; `type A extends A` is flagged, and so are both A and B of
\* `type A extends B`, `type B extends A`
C3_CircularInheritance ==
    (document # None /\ DocumentRegistered) =>
        /\ \A i \in DOMAIN DocumentTypes :
            LET T == DocumentTypes[i] IN
            /\ (T.extends # "" /\ ChainRevisits(T.name))
                  => Count(Messages, {CircularMessage(T.name)}) = 1
            /\ ~(T.extends # "" /\ ChainRevisits(T.name))
                  => Count(Messages, {CircularMessage(T.name)}) = 0
        /\ document.text = TypeBlock("A", "A", <<>>)
              => Count(Messages, {CircularMessage("A")}) = 1
        /\ document.text = TypeBlock("A", "B", <<>>) \o TypeBlock("B", "A", <<>>)
              => /\ Count(Messages, {CircularMessage("A")}) = 1
                 /\ Count(Messages, {CircularMessage("B")}) = 1

\* `type A extends B`, `type B extends A` validated: both are flagged
C3_Witness ==
    /\ document # None
    /\ DocumentRegistered
    /\ document.text = TypeBlock("A", "B", <<>>) \o TypeBlock("B", "A", <<>>)
    /\ Count(Messages, {CircularMessage("A")}) = 1
    /\ Count(Messages, {CircularMessage("B")}) = 1

ParentMessage(name) == <<"Parent type '", name, "' is not defined">>

\* C4: a Type's extends clause gets an undefined-type diagnostic exactly when
\* the parent name is neither a primitive name nor resolvable in the index, as
\* a Type or as an Enum; a parent that resolves in the index is never flagged
C4_UndefinedParent ==
    document # None =>
        \A i \in DOMAIN DocumentTypes :
            LET parent == DocumentTypes[i].extends IN
            parent # "" =>
                ((Count(Messages, {ParentMessage(parent)}) > 0)
                 <=> /\ parent \notin primitiveTypes
                     /\ getType(indexer, <<parent>>) = Undefined
                     /\ getEnum(indexer, <<parent>>) = Undefined)

FieldMessage(name) == <<"Field type '", name, "' is not defined">>

\* the type names of all the fields of the document's Types, in order
RECURSIVE FieldTypesOf(_)
FieldTypesOf(types) ==
    IF types = <<>> THEN <<>>
    ELSE [j \in DOMAIN Head(types).fields |-> Head(types).fields[j].type]
         \o FieldTypesOf(Tail(types))

\* C5: every field whose type name is no primitive and resolves neither
\* through getType nor through getEnum gets exactly one undefined-type
\* diagnostic, and no other field gets one: per type name, there are as many
\* such diagnostics as fields of that type name when it is unresolved, and
\* none when it is a primitive or resolves
C5_UndefinedFieldType ==
    document # None =>
        \A name \in Range(FieldTypesOf(DocumentTypes)) :
            Count(Messages, {FieldMessage(name)})
            = IF /\ name \notin primitiveTypes
                 /\ getType(indexer, <<name>>) = Undefined
                 /\ getEnum(indexer, <<name>>) = Undefined
              THEN Count(FieldTypesOf(DocumentTypes), {name})
              ELSE 0

\* a Type with three fields was validated: two of the undefined type Z, each
\* flagged once, and one of the enum type E, not flagged
C5_Witness ==
    /\ document # None
    /\ Count(FieldTypesOf(DocumentTypes), {"Z"}) = 2
    /\ Count(Messages, {FieldMessage("Z")}) = 2
    /\ Count(FieldTypesOf(DocumentTypes), {"E"}) = 1
    /\ getEnum(indexer, <<"E">>) # Undefined
    /\ Count(Messages, {FieldMessage("E")}) = 0

DuplicateFieldMessage(field, type) ==
    <<"Duplicate field name '", field, "' in type '", type, "'">>

\* the names of the fields of a Type, in order
FieldNamesOf(type) == [j \in DOMAIN type.fields |-> type.fields[j].name]

\* the repeats of the field name `field` in the Types named `type`: one less
\* than its occurrences in each Type that has it
RECURSIVE Repeats(_, _, _)
Repeats(types, type, field) ==
    IF types = <<>> THEN 0
    ELSE (IF Head(types).name = type /\ Count(FieldNamesOf(Head(types)), {field}) > 0
          THEN Count(FieldNamesOf(Head(types)), {field}) - 1
          ELSE 0)
         + Repeats(Tail(types), type, field)

\* C12: a field name occurring k >= 1 times in the field list of a Type gets
\* exactly k - 1 duplicate-field diagnostics: none for the first occurrence,
\* one for each later repeat
C12_DuplicateFields ==
    document # None =>
        \A i \in DOMAIN DocumentTypes :
            \A field \in Range(FieldNamesOf(DocumentTypes[i])) :
                Count(Messages, {DuplicateFieldMessage(field, DocumentTypes[i].name)})
                = Repeats(DocumentTypes, DocumentTypes[i].name, field)

\* a Type with the field f three times was validated: two diagnostics
C12_Witness ==
    /\ document # None
    /\ Len(DocumentTypes) = 1
    /\ FieldNamesOf(DocumentTypes[1]) = <<"f", "f", "f">>
    /\ Count(Messages, {DuplicateFieldMessage("f", DocumentTypes[1].name)}) = 2

\* the ids of the validation rules
RuleIds == {VALIDATION_RULES[r].id : r \in DOMAIN VALIDATION_RULES}

\* C13: every diagnostic the Validator emits for a rule finding carries the
\* id of the rule that produced it, besides severity, message and range
C13_DiagnosticsCarryRuleId ==
    document # None =>
        \A i \in DOMAIN diagnostics :
            /\ {"range", "message", "severity"} \subseteq DOMAIN diagnostics[i]
            /\ \/ diagnostics[i].code # Undefined /\ diagnostics[i].code \in RuleIds
               \/ diagnostics[i].source # Undefined /\ diagnostics[i].source \in RuleIds

-----------------------------------------------------------------------------
(* SpecGraph: buildGraphFromType on an indexed workspace *)

InitGraph ==
    /\ GraphDisk(disk)
    /\ workspaceFolders = WorkspaceFolders(<<Root>>)
    /\ events = <<>>
    /\ \E order \in WalkOrders :
        /\ files = indexWorkspace(EmptyIndex, disk, workspaceFolders, order).files
        /\ typeIndex = indexWorkspace(EmptyIndex, disk, workspaceFolders, order).typeIndex
        /\ enumIndex = indexWorkspace(EmptyIndex, disk, workspaceFolders, order).enumIndex
    /\ graph = None
    /\ IdleParse /\ IdleCard /\ IdleValidate /\ IdleEditor /\ IdleSearch /\ IdleLoop

\* buildGraphFromType(typeName, options) is called
BuildGraphFromType ==
    /\ graph = None
    /\ \E typeName \in GraphRoots, includeFields, includeEnums \in BOOLEAN :
        \/ graph' = StartGraph(typeName, GraphOptions(includeFields, includeEnums))
        \/ \E maxDepth \in 0..MaxDepth :
             graph' = StartGraph(typeName,
                         WithMaxDepth(GraphOptions(includeFields, includeEnums), maxDepth))
    /\ UNCHANGED <<indexVars, parseVars, cardVars, validateVars, editorVars, search, loopVars>>

\* buildGraph(options) is called; the Map of files is iterated in the order
\* in which the files were first indexed, whichever that was
BuildGraph ==
    /\ graph = None
    /\ \E order \in WalkOrders, includeFields, includeEnums \in BOOLEAN :
         graph' = buildGraph(indexer, SeqFilter(order, DOMAIN files),
                             GraphOptions(includeFields, includeEnums))
    /\ UNCHANGED <<indexVars, parseVars, cardVars, validateVars, editorVars, search, loopVars>>

\* the next invocation of buildGraphRecursive runs
BuildGraphRecursive ==
    /\ graph # None
    /\ Rooted(graph)
    /\ ~Returned(graph)
    /\ graph' = buildGraphRecursive(indexer, graph)
    /\ UNCHANGED <<indexVars, parseVars, cardVars, validateVars, editorVars, search, loopVars>>

NextGraph == BuildGraphFromType \/ BuildGraphRecursive \/ BuildGraph

SpecGraph == InitGraph /\ [][NextGraph]_vars

\* a call that was made keeps running until it returns
FairSpecGraph == SpecGraph /\ WF_vars(BuildGraphRecursive)

-----------------------------------------------------------------------------
(* Claims about the graph builder *)

\* buildGraphFromType has returned
GraphBuilt == graph # None /\ Rooted(graph) /\ Returned(graph)

\* the names the Type `name` resolves to refers to: its parent and, when
\* fields are included, its non-primitive field types
ReferencesOf(name) ==
    LET type == getType(indexer, name) IN
    IF type = Undefined THEN {}
    ELSE {<<type.extends>> : x \in {y \in {0} : type.extends # ""}}
         \cup {<<type.fields[i].type>> :
                 i \in {j \in DOMAIN type.fields :
                          /\ graph.options.includeFields
                          /\ type.fields[j].type \notin primitiveTypes}}

\* the names k references away from the root
RECURSIVE ReachedAt(_)
ReachedAt(k) ==
    IF k = 0 THEN {graph.typeName}
    ELSE UNION {ReferencesOf(name) : name \in ReachedAt(k - 1)}

\* the names at most d references away from the root
ReachedWithin(d) == UNION {ReachedAt(k) : k \in 0..d}

\* the id under which `name` is drawn: its symbol's namespace and the
\* definition's own name
NodeIdOf(name) ==
    getSymbol(indexer, name).namespace
    \o <<(IF getType(indexer, name) # Undefined THEN getType(indexer, name)
          ELSE getEnum(indexer, name)).name>>

\* the kind of node `name` is drawn as, "" when it gets no node
KindOf(name) ==
    IF getType(indexer, name) # Undefined THEN "type"
    ELSE IF getEnum(indexer, name) # Undefined /\ graph.options.includeEnums THEN "enum"
    ELSE ""

\* how many edges e the expansion of `name` emits
EdgesFrom(name, e) ==
    LET type == getType(indexer, name) IN
    IF type = Undefined \/ e.from # NodeIdOf(name) THEN 0
    ELSE (IF /\ type.extends # ""
             /\ e = TypeEdge(e.from, Append(getSymbol(indexer, name).namespace, type.extends),
                             "extends", "extends")
          THEN 1 ELSE 0)
         + Cardinality({i \in DOMAIN type.fields :
                /\ graph.options.includeFields
                /\ type.fields[i].type \notin primitiveTypes
                /\ e = TypeEdge(e.from,
                                Append(getSymbol(indexer, name).namespace, type.fields[i].type),
                                "hasField", type.fields[i].name)})

RECURSIVE SumOver(_, _)
SumOver(S, e) ==
    IF S = {} THEN 0
    ELSE LET name == CHOOSE n \in S : TRUE IN
         EdgesFrom(name, e) + SumOver(S \ {name}, e)

\* every edge a Type among `names` emits
AllEdgesFrom(names) ==
    UNION {LET type == getType(indexer, name) IN
           IF type = Undefined THEN {}
           ELSE {TypeEdge(NodeIdOf(name),
                          Append(getSymbol(indexer, name).namespace, type.extends),
                          "extends", "extends") : x \in {y \in {0} : type.extends # ""}}
                \cup {TypeEdge(NodeIdOf(name),
                               Append(getSymbol(indexer, name).namespace, type.fields[i].type),
                               "hasField", type.fields[i].name) :
                        i \in {j \in DOMAIN type.fields :
                                 /\ graph.options.includeFields
                                 /\ type.fields[j].type \notin primitiveTypes}}
           : name \in names}

EmployeeModel ==
    /\ disk["a.rosetta"] = TypeBlock("Employee", "Person",
            <<FieldLine("name", "string", One), FieldLine("department", "Department", One)>>)
    /\ CanRead(disk, "b.rosetta")
    /\ disk["b.rosetta"] = TypeBlock("Person", "", <<FieldLine("name", "string", One)>>)
                              \o TypeBlock("Department", "", <<>>)

EmployeeCall ==
    /\ graph.typeName = <<"Employee">>
    /\ graph.options.includeFields
    /\ MaxDepthOf(graph.options) = 1

EmployeeResult ==
    /\ DOMAIN graph.nodes = {<<"Employee">>, <<"Person">>, <<"Department">>}
    /\ graph.edges =
         <<TypeEdge(<<"Employee">>, <<"Person">>, "extends", "extends"),
           TypeEdge(<<"Employee">>, <<"Department">>, "hasField", "department")>>

\* C6: when buildGraphFromType(root, maxDepth = d) has returned, the names it
\* expanded are at most d references away from the root; the nodes are the
\* ones of the expanded names that resolve, a Type node or an Enum node; the
\* edges are exactly the ones emitted from the expanded Types, one extends
\* edge per parent and one hasField edge, labelled with the field name, per
\* non-primitive field; for Employee extends Person with a field department:
\* Department and d = 1 there are exactly three nodes and the two edges
\* Employee-extends->Person, Employee-hasField->Department
C6_GraphWithinDepth ==
    GraphBuilt =>
        LET d == MaxDepthOf(graph.options) IN
        /\ graph.visited \subseteq ReachedWithin(d)
        /\ DOMAIN graph.nodes
             = {NodeIdOf(name) : name \in {n \in graph.visited : KindOf(n) # ""}}
        /\ \A name \in graph.visited :
             KindOf(name) # "" =>
                /\ graph.nodes[NodeIdOf(name)].id = NodeIdOf(name)
                /\ graph.nodes[NodeIdOf(name)].kind = KindOf(name)
        /\ \A e \in Range(graph.edges) \cup AllEdgesFrom(graph.visited) :
             Count(graph.edges, {e}) = SumOver(graph.visited, e)
        /\ (EmployeeModel /\ EmployeeCall) => EmployeeResult

\* the Employee graph with maxDepth 1 was built
C6_Witness ==
    /\ GraphBuilt
    /\ EmployeeModel
    /\ EmployeeCall
    /\ EmployeeResult

\* no name occurs twice among the expanded ones
ExpandedOnce ==
    (graph # None /\ Rooted(graph)) =>
        \A i, j \in DOMAIN graph.expanded :
            graph.expanded[i] = graph.expanded[j] => i = j

\* C7: every call of buildGraphFromType returns, whatever the index holds and
\* whatever maxDepth is, inheritance and field cycles included, and no name
\* is expanded a second time
C7_GraphTerminates ==
    /\ (graph # None /\ Rooted(graph)) ~> GraphBuilt
    /\ []ExpandedOnce

\* a graph was built from A over `type A extends B`, `type B extends A`: both
\* were expanded, and the call for A that closes the cycle returned at once
C7_Witness ==
    /\ GraphBuilt
    /\ disk["a.rosetta"] = TypeBlock("A", "B", <<>>) \o TypeBlock("B", "A", <<>>)
    /\ graph.typeName = <<"A">>
    /\ graph.expanded = <<<<"A">>, <<"B">>>>
    /\ Len(graph.edges) = 2

\* the names buildGraphRecursive was, or is about to be, called with
CalledWith(g) == g.visited \cup {g.calls[i].typeName : i \in DOMAIN g.calls}

\* C14: no graph of buildGraph or buildGraphFromType has an edge, extends or
\* hasField, whose target is a primitive name, and the rooted traversal never
\* recurses into a primitive name
C14_NoPrimitiveTargets ==
    graph # None =>
        /\ \A i \in DOMAIN graph.edges :
             ~(Len(graph.edges[i].to) = 1 /\ graph.edges[i].to[1] \in primitiveTypes)
        /\ Rooted(graph) =>
             \A name \in CalledWith(graph) \ {graph.typeName} :
                ~(Len(name) = 1 /\ name[1] \in primitiveTypes)

\* buildGraph or buildGraphFromType has returned its graph
GraphComplete == graph # None /\ (Rooted(graph) => Returned(graph))

\* C26: buildGraphFromType(root, maxDepth = d) has a node for every Type or
\* Enum at most d resolvable references away from the root, whatever the order
\* in which parents and fields are visited
C26_ReachableHaveNodes ==
    GraphBuilt =>
        \A name \in ReachedWithin(MaxDepthOf(graph.options)) :
            KindOf(name) # "" => NodeIdOf(name) \in DOMAIN graph.nodes

\* C27: an edge whose parent or field type has a node in the graph has that
\* node's id as its `to`, also when the referenced definition is in another
\* namespace than the referring Type
C27_EdgesReachNodes ==
    GraphComplete =>
        \A i \in DOMAIN graph.edges :
            (\E id \in DOMAIN graph.nodes : graph.nodes[id].name = Last(graph.edges[i].to))
                => graph.edges[i].to \in DOMAIN graph.nodes

-----------------------------------------------------------------------------
(* SpecEdit: a document is opened, edited and saved in the editor *)

TextDocument(path, text) == [path |-> path, text |-> text]

DocumentEvent(kind, path) == [kind |-> kind, path |-> path]

\* activate() has run on a workspace of two files; no document is open
InitEdit ==
    /\ \E a, b \in IndexTexts : disk = ("a.rosetta" :> a @@ "b.rosetta" :> b)
    /\ workspaceFolders = WorkspaceFolders(<<Root>>)
    /\ events = <<>>
    /\ \E order \in WalkOrders :
        /\ files = indexWorkspace(EmptyIndex, disk, workspaceFolders, order).files
        /\ typeIndex = indexWorkspace(EmptyIndex, disk, workspaceFolders, order).typeIndex
        /\ enumIndex = indexWorkspace(EmptyIndex, disk, workspaceFolders, order).enumIndex
    /\ textDocument = None
    /\ documentEvents = <<>>
    /\ IdleParse /\ IdleCard /\ IdleValidate /\ IdleGraph /\ IdleSearch /\ IdleLoop

\* the user opens a file; the workspace fires onDidOpenTextDocument
OpenTextDocument ==
    \E p \in Paths :
        /\ textDocument = None
        /\ textDocument' = TextDocument(p, disk[p])
        /\ documentEvents' = Append(documentEvents, DocumentEvent("open", p))
        /\ UNCHANGED <<indexVars, parseVars, cardVars, validateVars, graph, search, loopVars>>

\* the user edits the open document; the workspace fires
\* onDidChangeTextDocument
ChangeTextDocument ==
    \E text \in IndexTexts :
        /\ textDocument # None
        /\ text # textDocument.text
        /\ Len(documentEvents) < MaxEvents
        /\ textDocument' = TextDocument(textDocument.path, text)
        /\ documentEvents' = Append(documentEvents,
                                DocumentEvent("change", textDocument.path))
        /\ UNCHANGED <<indexVars, parseVars, cardVars, validateVars, graph, search, loopVars>>

\* the user saves the open document: the file is written, the workspace fires
\* onDidSaveTextDocument and the file watcher queues a change event
SaveTextDocument ==
    /\ textDocument # None
    /\ textDocument.text # disk[textDocument.path]
    /\ Len(documentEvents) < MaxEvents
    /\ Len(events) < MaxEvents
    /\ disk' = [disk EXCEPT ![textDocument.path] = textDocument.text]
    /\ documentEvents' = Append(documentEvents,
                            DocumentEvent("save", textDocument.path))
    /\ events' = Append(events, Event("change", textDocument.path))
    /\ UNCHANGED <<textDocument, workspaceFolders, files, typeIndex, enumIndex>>
    /\ UNCHANGED <<parseVars, cardVars, validateVars, graph, search, loopVars>>

\* the workspace delivers a document event to the listeners activate()
\* subscribed: it subscribes none to onDidOpenTextDocument,
\* onDidChangeTextDocument or onDidSaveTextDocument, arms no timer and
\* constructs no DiagnosticProvider
OnDidOpenTextDocument ==
    /\ documentEvents # <<>>
    /\ Head(documentEvents).kind = "open"
    /\ documentEvents' = Tail(documentEvents)
    /\ UNCHANGED <<textDocument, indexVars, parseVars, cardVars, validateVars, graph, search, loopVars>>

OnDidChangeTextDocument ==
    /\ documentEvents # <<>>
    /\ Head(documentEvents).kind = "change"
    /\ documentEvents' = Tail(documentEvents)
    /\ UNCHANGED <<textDocument, indexVars, parseVars, cardVars, validateVars, graph, search, loopVars>>

OnDidSaveTextDocument ==
    /\ documentEvents # <<>>
    /\ Head(documentEvents).kind = "save"
    /\ documentEvents' = Tail(documentEvents)
    /\ UNCHANGED <<textDocument, indexVars, parseVars, cardVars, validateVars, graph, search, loopVars>>

NextEdit ==
    \/ OpenTextDocument
    \/ ChangeTextDocument
    \/ SaveTextDocument
    \/ OnDidOpenTextDocument
    \/ OnDidChangeTextDocument
    \/ OnDidSaveTextDocument
    \/ OnDidChange

SpecEdit == InitEdit /\ [][NextEdit]_vars

\* C20: validation is triggered by document open, save and change, the change
\* case after a quiet period: once every event of the open document has been
\* delivered and no validation is waiting on a timer (the program arms none),
\* the Validator has run on the latest text of the document and its
\* diagnostics are those of that text
C20_ValidatedAfterQuiet ==
    (textDocument # None /\ documentEvents = <<>>) =>
        /\ document # None
        /\ document.path = textDocument.path
        /\ document.text = textDocument.text
        /\ diagnostics = validateDocument(indexer, textDocument.text, textDocument.path)

-----------------------------------------------------------------------------
(* SpecUnsaved: validateDocument on an editor document whose text need not be
   the text on disk that the index was built from *)

\* the texts of a.rosetta, on disk and in the editor
UnsavedTexts ==
    {TypeBlock("A", "B", <<>>) \o TypeBlock("B", "", <<>>),
     TypeBlock("D", "", <<FieldLine("f", "E", One)>>) \o EnumBlock("E", <<ValueLine("X")>>),
     TypeBlock("D", "", <<FieldLine("f", "C", One)>>) \o TypeBlock("C", "", <<>>),
     TypeBlock("A", "", <<FieldLine("f", "string", One)>>),
     TypeBlock("A", "Z", <<FieldLine("f", "B", Many)>>),
     <<N1>> \o TypeBlock("C", "A", <<>>) \o TypeBlock("A", "", <<>>),
     TypeBlock("B", "E", <<>>) \o EnumBlock("E", <<ValueLine("X")>>),
     TypeBlock("AB", "", <<FieldLine("f", "Z", One)>>)
        \o TypeBlock("A", "", <<FieldLine("g", "Z", One)>>),
     TypeBlock("A", "", <<FieldLine("f", "Z", <<>>)>>)}

\* activate() has indexed the workspace as saved
InitUnsaved ==
    /\ \E a \in UnsavedTexts :
        \/ disk = ("a.rosetta" :> a @@ "b.rosetta" :> Absent)
        \/ \E b \in OtherTexts : disk = ("a.rosetta" :> a @@ "b.rosetta" :> b)
    /\ workspaceFolders = WorkspaceFolders(<<Root>>)
    /\ events = <<>>
    /\ \E order \in WalkOrders :
        /\ files = indexWorkspace(EmptyIndex, disk, workspaceFolders, order).files
        /\ typeIndex = indexWorkspace(EmptyIndex, disk, workspaceFolders, order).typeIndex
        /\ enumIndex = indexWorkspace(EmptyIndex, disk, workspaceFolders, order).enumIndex
    /\ document = None
    /\ diagnostics = <<>>
    /\ IdleParse /\ IdleCard /\ IdleGraph /\ IdleEditor /\ IdleSearch /\ IdleLoop

\* validateDocument(document) on a.rosetta as the editor holds it: getText()
\* is the saved text or an edit of it that is not saved, hence not indexed
ValidateTextDocument ==
    \E text \in UnsavedTexts, languageId \in LanguageIds :
        /\ IF languageId # "rosetta" THEN UNCHANGED <<document, diagnostics>>
           ELSE /\ document' = [path |-> "a.rosetta", text |-> text]
                /\ diagnostics' = validateDocument(indexer, text, "a.rosetta")
        /\ UNCHANGED <<indexVars, parseVars, cardVars, graph, editorVars, search, loopVars>>

NextUnsaved == ValidateTextDocument \/ Clear \/ Dispose

SpecUnsaved == InitUnsaved /\ [][NextUnsaved]_vars

\* the names of the Types and Enums the validated document defines
DocumentNames ==
    DefinedNames(DocumentTypes)
    \cup DefinedNames(parse(document.text, document.path, NoFault).file.enums)

\* C28: a parent or field-type reference to a Type or Enum that the validated
\* document itself defines gets no undefined-type diagnostic, whether or not
\* the index was built from the document's current text
C28_OwnDefinitionsResolve ==
    document # None =>
        \A name \in DocumentNames :
            /\ Count(Messages, {ParentMessage(name)}) = 0
            /\ Count(Messages, {FieldMessage(name)}) = 0

-----------------------------------------------------------------------------
(* SpecSearch: SearchProvider.search on an indexed workspace *)

\* the texts of the searched files
SearchTexts ==
    {TypeBlock("Ab", "", <<FieldLine("a", "string", One), FieldLine("ba", "B", One)>>)
        \o TypeBlock("B", "", <<FieldLine("ab", "string", One)>>),
     <<N1>> \o TypeBlock("B", "", <<FieldLine("b", "string", One)>>)
        \o EnumBlock("Ba", <<ValueLine("X")>>),
     <<TypeLine(0, "a", "", "text"), FieldLine("ab", "string", One), CloseLine>>
        \o EnumBlock("ab", <<ValueLine("X")>>),
     EnumBlock("b", <<ValueLine("X")>>)}

\* the texts of the other file, when there is one
OtherSearchTexts ==
    {<<N1>> \o TypeBlock("Ba", "", <<FieldLine("ab", "string", One),
                                     FieldLine("a", "string", One)>>),
     TypeBlock("b", "", <<FieldLine("B", "string", One)>>)
        \o EnumBlock("Ab", <<ValueLine("X")>>)}

\* the queries typed
Queries == {"", "a", "b", "ab", "x"}

\* the filters showFilterOptions builds, the empty kind array, and no filters
Filters ==
    {SearchFilters(kind, namespace, hasDescription) :
        kind \in {Undefined} \cup {Kinds(S) : S \in {{"type"}, {"enum"}, {"field"},
                                                     {"type", "enum"}, {}}},
        namespace \in {<<>>, <<"n1">>},
        hasDescription \in {Undefined, Given(TRUE), Given(FALSE)}}

\* activate() has indexed the workspace
InitSearch ==
    /\ \E a \in SearchTexts :
        \/ disk = ("a.rosetta" :> a @@ "b.rosetta" :> Absent)
        \/ \E b \in OtherSearchTexts : disk = ("a.rosetta" :> a @@ "b.rosetta" :> b)
    /\ workspaceFolders = WorkspaceFolders(<<Root>>)
    /\ events = <<>>
    /\ \E order \in WalkOrders :
        /\ files = indexWorkspace(EmptyIndex, disk, workspaceFolders, order).files
        /\ typeIndex = indexWorkspace(EmptyIndex, disk, workspaceFolders, order).typeIndex
        /\ enumIndex = indexWorkspace(EmptyIndex, disk, workspaceFolders, order).enumIndex
    /\ search = None
    /\ IdleParse /\ IdleCard /\ IdleValidate /\ IdleGraph /\ IdleEditor /\ IdleLoop

\* search(query, filters) is called, with filters or without; the Map of files
\* is iterated in the order in which the files were first indexed, and the
\* locale of the host is the same at every call
SearchQuery ==
    \E query \in Queries, order \in WalkOrders, locale \in Locales :
        /\ search # None => locale = search.locale
        /\ \/ search' = [query |-> query, filters |-> Undefined, locale |-> locale,
                         results |-> Search(indexer, SeqFilter(order, DOMAIN files),
                                            query, Undefined, locale)]
           \/ \E filters \in Filters :
                search' = [query |-> query, filters |-> filters, locale |-> locale,
                           results |-> Search(indexer, SeqFilter(order, DOMAIN files),
                                              query, filters, locale)]
        /\ UNCHANGED <<indexVars, parseVars, cardVars, validateVars, graph, editorVars,
                       loopVars>>

NextSearch == SearchQuery

SpecSearch == InitSearch /\ [][NextSearch]_vars

\* the search was restricted to fields
FieldsOnly ==
    /\ search # None
    /\ search.filters # Undefined
    /\ search.filters.kind = Kinds({"field"})

\* the fields of the index whose name matches the query of the search, each
\* with its Type and its file
MatchingFields ==
    {[name |-> f.name, parent |-> t.name, filePath |-> p] :
        <<p, t, f>> \in
            {x \in UNION {UNION {{<<q, u, g>> : g \in Range(u.fields)} :
                                    u \in Range(files[q].types)} : q \in DOMAIN files} :
                matchesQuery(x[3].name, toLowerCase(Chars(search.query)))}}

\* C21: search(query, filters) with the kind filter restricted to fields
\* returns every field whose name matches the query, each with its containing
\* Type as parent, and no Type or Enum result
C21_FieldsOnlyReturnsFields ==
    FieldsOnly =>
        /\ \A r \in Range(search.results) : r.kind = "field"
        /\ \A m \in MatchingFields :
              \E r \in Range(search.results) :
                  /\ r.kind = "field"
                  /\ r.name = m.name
                  /\ r.parent = m.parent
                  /\ r.filePath = m.filePath

-----------------------------------------------------------------------------
(* SpecLoop: the handlers of the extension on the event loop of the host, the
   indexing operations taken statement by statement *)

RECURSIVE WalkFolder(_, _, _)
\* the loop of indexFolder over the entries: the paths indexFile is called
\* with, in the order of the calls
RECURSIVE WalkEntries(_, _, _)
WalkEntries(d, entries, order) ==
    IF entries = <<>> THEN <<>>
    ELSE LET fullPath == Head(entries)
             name == BaseName(fullPath)
         IN (IF IsDirectory(d, fullPath)
             THEN (IF name # "node_modules" /\ ~StartsWithDot(name)
                   THEN WalkFolder(d, fullPath, order)
                   ELSE <<>>)
             ELSE IF IsFile(d, fullPath) /\ EndsWithRosetta(name)
             THEN <<fullPath>>
             ELSE <<>>)
            \o WalkEntries(d, Tail(entries), order)

\* indexFolder(folderPath): the calls of indexFile it makes
WalkFolder(d, folderPath, order) ==
    IF ~CanList(d, folderPath) THEN <<>>
    ELSE WalkEntries(d, readdirSync(d, folderPath, order), order)

\* the loop of indexWorkspace over workspaceFolders: the calls of indexFile
RECURSIVE WalkFolders(_, _, _)
WalkFolders(d, folders, order) ==
    IF folders = <<>> THEN <<>>
    ELSE WalkFolder(d, Head(folders), order) \o WalkFolders(d, Tail(folders), order)

\* an indexing operation that was called and has not returned: it is about to
\* clear the tables ("clear"), inside the walk with the calls of indexFile in
\* `todo` still to make ("index"), or a call of indexFile by a watcher
\* handler ("file")
Operation(op, pc, todo) == [op |-> op, pc |-> pc, todo |-> todo]

\* as if the walk awaited between two calls of indexFile
YieldsBetweenFiles(pc) == pc = "index"

\* the yield points of indexWorkspace, indexFolder and indexFile: none of them
\* is async and none awaits (readdirSync, readFileSync), so an operation that
\* was entered hands control back to the event loop at no position
Yields(pc) == FALSE

\* the event loop can run the next handler: every operation in flight is
\* suspended at a yield point
CanDispatch == \A i \in DOMAIN running : Yields(running[i].pc)

\* the operation i in flight can take its next step
CanStep(i) == \A j \in DOMAIN running \ {i} : Yields(running[j].pc)

\* the operations in flight once operation i has returned
Remaining(s, i) == SubSeq(s, 1, i - 1) \o SubSeq(s, i + 1, Len(s))

\* what the user and the file watcher have queued for the extension
LoopEvents ==
    {Event("refresh", Root), Event("create", "a.rosetta"), Event("change", "b.rosetta"),
     Event("delete", "a.rosetta")}

\* the index holds an earlier indexWorkspace() of the open folder; the file
\* system has changed since, and commands and watcher events are waiting
InitLoop ==
    /\ \E a \in BOOLEAN, k \in 1..3 : disk = TreeDisk(Directory(TRUE), a, Directory(TRUE), k)
    /\ workspaceFolders = WorkspaceFolders(<<Root>>)
    /\ events \in SeqsUpTo(LoopEvents, MaxEvents) \ {<<>>}
    /\ \E order \in WalkOrders, k \in 1..2 :
        LET idx == indexWorkspace(EmptyIndex, EarlierTreeDisk(k),
                                  WorkspaceFolders(<<Root>>), order)
        IN /\ files = idx.files
           /\ typeIndex = idx.typeIndex
           /\ enumIndex = idx.enumIndex
    /\ running = <<>>
    /\ observed = None
    /\ IdleParse /\ IdleCard /\ IdleValidate /\ IdleGraph /\ IdleEditor /\ IdleSearch

\* the event loop runs the handler of the command cdm.refreshExplorer or of
\* fileWatcher.onDidDelete, which calls indexWorkspace()
CallIndexWorkspace ==
    /\ CanDispatch
    /\ events # <<>>
    /\ Head(events).kind \in {"refresh", "delete"}
    /\ events' = Tail(events)
    /\ running' = Append(running, Operation("indexWorkspace", "clear", <<>>))
    /\ UNCHANGED <<disk, workspaceFolders, files, typeIndex, enumIndex, observed,
                   parseVars, cardVars, validateVars, graph, editorVars, search>>

\* the event loop runs the handler of fileWatcher.onDidCreate or onDidChange,
\* which calls indexFile(uri.fsPath)
CallIndexFile ==
    /\ CanDispatch
    /\ events # <<>>
    /\ Head(events).kind \in {"create", "change"}
    /\ events' = Tail(events)
    /\ running' = Append(running, Operation("indexFile", "file", <<Head(events).path>>))
    /\ UNCHANGED <<disk, workspaceFolders, files, typeIndex, enumIndex, observed,
                   parseVars, cardVars, validateVars, graph, editorVars, search>>

\* indexWorkspace: the three clear() calls, the return when no folder is open,
\* and the entry into the walk
ClearTables ==
    \E i \in DOMAIN running :
        /\ CanStep(i)
        /\ running[i].pc = "clear"
        /\ SetIndex(EmptyIndex)
        /\ \E order \in WalkOrders :
            LET todo == IF workspaceFolders = Undefined THEN <<>>
                        ELSE WalkFolders(disk, workspaceFolders.folders, order)
            IN running' = IF todo = <<>> THEN Remaining(running, i)
                          ELSE [running EXCEPT ![i] = Operation("indexWorkspace", "index", todo)]
        /\ UNCHANGED <<disk, workspaceFolders, events, observed,
                       parseVars, cardVars, validateVars, graph, editorVars, search>>

\* the next call of indexFile, inside the walk or by a watcher handler; the
\* operation returns after its last one
IndexNextFile ==
    \E i \in DOMAIN running :
        /\ CanStep(i)
        /\ running[i].pc \in {"index", "file"}
        /\ SetIndex(indexFile(indexer, disk, Head(running[i].todo)))
        /\ running' = IF Tail(running[i].todo) = <<>> THEN Remaining(running, i)
                      ELSE [running EXCEPT ![i].todo = Tail(running[i].todo)]
        /\ UNCHANGED <<disk, workspaceFolders, events, observed,
                       parseVars, cardVars, validateVars, graph, editorVars, search>>

\* the event loop runs a provider query (references, search, graph), which
\* reads the tables; inFlight are the indexing operations that have not
\* returned when it does
Query ==
    /\ CanDispatch
    /\ observed' = [index |-> indexer, inFlight |-> running]
    /\ UNCHANGED <<indexVars, running, parseVars, cardVars, validateVars, graph,
                   editorVars, search>>

NextLoop ==
    \/ CallIndexWorkspace
    \/ CallIndexFile
    \/ ClearTables
    \/ IndexNextFile
    \/ Query

SpecLoop == InitLoop /\ [][NextLoop]_vars

\* C24: indexWorkspace and indexFile run to completion without yielding:
\* under any interleaving of refresh commands, watcher events and queries,
\* no query reads the tables while an indexing operation has not returned,
\* and no indexing operation starts while another has not returned
C24_NoPartialIndexObserved ==
    /\ Len(running) <= 1
    /\ observed # None => observed.inFlight = <<>>

\* a query has read the tables after every queued command and event was
\* handled, and found the files indexed
C24_Witness ==
    /\ observed # None
    /\ events = <<>>
    /\ running = <<>>
    /\ observed.index = indexer
    /\ files # EmptyMap

====
